---- MODULE Spec2Model ----
(***************************************************************************)
(* Session Manager of the Electron loopback transcription application      *)
(* (src/index.js) together with the stop() protocol of its provider        *)
(* adapters (src/transcription/*.js).                                      *)
(*                                                                         *)
(* The main process is single-threaded: an IPC handler runs until its next *)
(* await on real I/O, so every action below is one such run-to-completion  *)
(* segment.  Awaits that only take a microtask turn (an async function     *)
(* that returns without waiting for I/O) do not let another handler in and *)
(* are folded into the segment.                                            *)
(*                                                                         *)
(* Text is a sequence of one-character strings, so that trimming and       *)
(* joining are computed as the code computes them.                         *)
(***************************************************************************)
EXTENDS Integers, Sequences, FiniteSets, TLC

-----------------------------------------------------------------------------
(* Bounds of the model *)

MaxRequests == 2        \* IPC requests and capture errors handled in one run
\* the handlers of a run in which one more request overlaps with the others
MaxHandlers == MaxRequests + 1
MaxEvents == 2          \* remote messages (transcripts, statuses) in one run
MaxBuffer == 3          \* audio chunks the batch adapter holds unsent
MaxStops == 2           \* stop() calls on one adapter session
MaxCalls == 3           \* calls of startRecallRecording and stopRecallRecording
MaxWords == 2           \* words in the word list of one payload
MaxKilohertz == 60      \* the highest sample rate asked for, in thousands
MaxChunks == 5          \* "data" events of the captures in one run

-----------------------------------------------------------------------------
(* Text *)

SP == " "
HK_TI == "U+9AD4"       \* a traditional-form character
CN_TI == "U+4F53"       \* its simplified form

Hello == <<"h", "e", "l", "l", "o">>
World == <<"w", "o", "r", "l", "d">>
Test == <<"t", "e", "s", "t">>
HelloWorld == Hello \o <<SP>> \o World
Empty == <<>>

RECURSIVE TrimStart(_)
TrimStart(s) ==
    IF s # <<>> /\ Head(s) = SP THEN TrimStart(Tail(s)) ELSE s

RECURSIVE TrimEnd(_)
TrimEnd(s) ==
    IF s # <<>> /\ s[Len(s)] = SP THEN TrimEnd(SubSeq(s, 1, Len(s) - 1)) ELSE s

\* String.prototype.trim
Trim(s) == TrimEnd(TrimStart(s))

\* OpenCC.Converter({from: "hk", to: "cn"}), character by character
convertToSimpleChinese(text) ==
    [i \in 1..Len(text) |-> IF text[i] = HK_TI THEN CN_TI ELSE text[i]]

\* texts a provider may put into a transcript message
RawTexts == {<<SP>>, Hello, World, <<SP>> \o Test \o <<SP>>}

-----------------------------------------------------------------------------
(* Program constants of src/index.js *)

NoType == "null"
TranscriptionTypes ==
    {"deepgram", "assembly", "gladia", "revai", "googleGenai", "speechmatics"}
\* the providers the requests of the model choose among: one that replaces
\* and stops without waiting, one that connects before its session exists,
\* one whose stop() has a timer
RequestedTypes == {"deepgram", "assembly", "revai"}
\* any other value of options.transcriptionType
UnknownType == "other"

SIMPLIFIED_TRANSCRIPT_PROVIDERS == {"assembly"}
REPLACING_FINAL_TRANSCRIPT_PROVIDERS == {"googleGenai", "deepgram"}


\* process.env.SAVE_LOOPBACK_WAV is not "1": the WAV archival is off, no
\* WavWriter is ever created and wavRecorder stays null
SHOULD_SAVE_WAV == FALSE

\* Math.max(1, Math.round(SILENT_CHUNK_WINDOW_MS / AUDIO_TEE_CHUNK_DURATION_MS)),
\* for chunks of half the window
SILENT_CHUNK_THRESHOLD == 2

-----------------------------------------------------------------------------
(* State *)

VARIABLES
    transcriptionSession,       \* 0 (null) or the adapter the session wraps
    currentTranscriptionType,   \* NoType or the provider name
    finalTranscript,            \* rolling final transcript
    audioCapture,               \* 0 (null) or the installed AudioTee capture
    adapters,                   \* provider adapters created so far
    captures,                   \* AudioTee instances created so far
    task,                       \* the handlers in flight and where they wait
    nRequests,                  \* handlers started so far
    uiStatus,                   \* "status-update" messages sent to the UI
    uiTranscripts,              \* "transcript" messages sent to the UI
    uiFinals,                   \* "transcript-final" messages sent to the UI
    emitted,                    \* payloads passed to onTranscript since the last accepted start
    nEvents,                    \* remote messages delivered
    lastHandler,                \* kind of the latest handler that was started
    stopFlushes,                \* flushes by stop requests since the last accepted start
    lastError,                  \* what the error caught by the latest start handler names
    consecutiveSilentChunks,    \* silent chunks forwarded in a row
    silentWarningEmitted,       \* "no-audio" was sent and no audio was heard since
    nChunks,                    \* "data" events delivered
    ad,                         \* the closure of one provider adapter, for its stop() protocol
    main,                       \* the main process of the build that takes its audio over IPC
    recall,                     \* the module that drives the Recall SDK
    applied                     \* a pure function of the program, its input and its result

indexVars == <<transcriptionSession, currentTranscriptionType, finalTranscript,
               audioCapture, adapters, captures,
               task, nRequests, uiStatus, uiTranscripts, uiFinals, emitted,
               nEvents, lastHandler, stopFlushes, lastError,
               consecutiveSilentChunks, silentWarningEmitted, nChunks>>

managerVars == <<indexVars, main, recall, applied>>

vars == <<managerVars, ad>>

\* the state as one record, so that the pieces of a handler can be chained
State ==
    [transcriptionSession |-> transcriptionSession,
     currentTranscriptionType |-> currentTranscriptionType,
     finalTranscript |-> finalTranscript,
     audioCapture |-> audioCapture,
     adapters |-> adapters,
     captures |-> captures,
     task |-> task,
     nRequests |-> nRequests,
     uiStatus |-> uiStatus,
     uiTranscripts |-> uiTranscripts,
     uiFinals |-> uiFinals,
     emitted |-> emitted,
     nEvents |-> nEvents,
     lastHandler |-> lastHandler,
     stopFlushes |-> stopFlushes,
     lastError |-> lastError,
     consecutiveSilentChunks |-> consecutiveSilentChunks,
     silentWarningEmitted |-> silentWarningEmitted,
     nChunks |-> nChunks]

Commit(s) ==
    /\ transcriptionSession' = s.transcriptionSession
    /\ currentTranscriptionType' = s.currentTranscriptionType
    /\ finalTranscript' = s.finalTranscript
    /\ audioCapture' = s.audioCapture
    /\ adapters' = s.adapters
    /\ captures' = s.captures
    /\ task' = s.task
    /\ nRequests' = s.nRequests
    /\ uiStatus' = s.uiStatus
    /\ uiTranscripts' = s.uiTranscripts
    /\ uiFinals' = s.uiFinals
    /\ emitted' = s.emitted
    /\ nEvents' = s.nEvents
    /\ lastHandler' = s.lastHandler
    /\ stopFlushes' = s.stopFlushes
    /\ lastError' = s.lastError
    /\ consecutiveSilentChunks' = s.consecutiveSilentChunks
    /\ silentWarningEmitted' = s.silentWarningEmitted
    /\ nChunks' = s.nChunks
    /\ UNCHANGED <<ad, main, recall, applied>>

\* what the UI has received on a channel: how many messages, and the latest
NoTranscript == [text |-> Empty, isFinal |-> FALSE, provider |-> NoType]
Receive(channel, message) == [n |-> channel.n + 1, last |-> message]

IdleTask == [kind |-> "none", pc |-> "done", adapter |-> 0, capture |-> 0]

\* the seven adapters: Google GenAI has a batch adapter and, for live models,
\* a websocket adapter
BatchKind == "googleGenai"
LiveKind == "googleGenaiLive"
AdapterKinds ==
    {"deepgram", "assembly", "gladia", "revai", "speechmatics",
     BatchKind, LiveKind}

\* createDeepgramSession and createRevaiSession return before the connection
\* is open; createGladiaSession returns once the session is initiated, before
\* its socket connects; the batch adapter has no connection; the others return
\* after their connection or handshake has succeeded
ReturnsBeforeOpen == {"deepgram", "revai", "gladia", BatchKind}

\* the closure variables of an adapter whose factory has attached its
\* listeners, and what its caller has seen of it
NewSession(kind) ==
    [kind |-> kind,
     closed |-> FALSE,              \* closed / streamClosed
     listening |-> TRUE,            \* the event listeners are attached
     stopPromise |-> "idle",        \* the promise stop() returned
     stopTimer |-> FALSE,           \* the timer of stop() is armed
     stopListeners |-> {},          \* events of the remote client stop() listens to
     remote |-> IF kind = BatchKind THEN "open" ELSE "connecting",
                                    \* the provider's connection
     returned |-> kind \in ReturnsBeforeOpen,
                                    \* the factory has returned the session
     handshake |-> FALSE,           \* the connection or handshake has succeeded
     connects |-> 0,                \* "connected" statuses emitted: 0, 1, or 2 for more
     status |-> IF kind = "speechmatics" THEN "connecting" ELSE "none",
     errored |-> FALSE,             \* onError has been called
     audioBuffer |-> 0,             \* chunks buffered by the batch adapter
     flushTimer |-> FALSE,
     stopping |-> FALSE,
     connected |-> FALSE,
     socketOpen |-> FALSE,          \* the live socket's "open" event has fired
     connectPromise |-> "pending",  \* pending, resolved or rejected
     setupResolved |-> FALSE,
     setup |-> "pending",           \* setupPromise: pending, resolved or rejected
     settles |-> 0,                 \* resolveSetup/rejectSetup calls: 0, 1, or 2 for more
     requestInFlight |-> FALSE,
     requests |-> 0,                \* generateContent calls not yet settled: 0, 1, or 2 for more
     flushRequestedWhileBusy |-> FALSE,
     unsentAtStop |-> FALSE,        \* audio that was buffered when stop() was called waits
     lastTranscript |-> Empty,
     transcript |-> Empty,          \* the latest text passed to onTranscript
     stops |-> 0,                   \* stop() calls so far
     terminals |-> 0,               \* terminal statuses emitted: 0, 1, or 2 for more
     emits |-> 0,                   \* statuses emitted by the latest step
     called |-> FALSE,              \* the latest step called the provider's client
     sent |-> "none",               \* the chunk the latest step passed to sendAudio
     settled |-> "none",            \* how the request the latest step settled has ended
     response |-> Empty,            \* the text of the response the latest step handled
     said |-> <<>>,                 \* the payloads the latest step passed to onTranscript
     armed |-> FALSE,               \* the latest step armed a stop timer
     fired |-> FALSE]               \* the latest step is the flush timer firing

\* no adapter under study: the Session Manager sees adapters by their outcomes
Detached == [kind |-> "none"]

ManagerInit ==
    /\ transcriptionSession = 0
    /\ currentTranscriptionType = NoType
    /\ finalTranscript = Empty
    /\ audioCapture = 0
    /\ adapters = <<>>
    /\ captures = <<>>
    /\ task = [h \in 1..MaxHandlers |-> IdleTask]
    /\ nRequests = 0
    /\ uiStatus = [n |-> 0, last |-> "none"]
    /\ uiTranscripts = [n |-> 0, last |-> NoTranscript]
    /\ uiFinals = [n |-> 0, last |-> Empty]
    /\ emitted = <<>>
    /\ nEvents = 0
    /\ lastHandler = "none"
    /\ stopFlushes = 0
    /\ lastError = "none"
    /\ consecutiveSilentChunks = 0
    /\ silentWarningEmitted = FALSE
    /\ nChunks = 0

Init ==
    /\ ManagerInit
    /\ ad = Detached /\ main = Detached /\ recall = Detached /\ applied = Detached

-----------------------------------------------------------------------------
(* Messages to the UI and the rolling transcript *)

sendStatus(s, status) == [s EXCEPT !.uiStatus = Receive(@, status)]

\* the adapters pass an object {text, isFinal}
extractTranscriptText(payload) == payload.text

simplifyTranscriptIfNeeded(s, text) ==
    IF text = <<>> THEN text
    ELSE IF s.currentTranscriptionType \notin SIMPLIFIED_TRANSCRIPT_PROVIDERS
         THEN text
         ELSE convertToSimpleChinese(text)

emitTranscript(s, text, isFinal) ==
    LET normalized ==
            simplifyTranscriptIfNeeded(s, Trim(extractTranscriptText(text)))
        sent == [s EXCEPT !.uiTranscripts =
                    Receive(@, [text |-> normalized,
                                isFinal |-> isFinal,
                                provider |-> s.currentTranscriptionType])]
        rolled ==
            IF s.currentTranscriptionType \in REPLACING_FINAL_TRANSCRIPT_PROVIDERS
            THEN normalized
            ELSE Trim(s.finalTranscript \o <<SP>> \o normalized)
    IN  IF normalized = <<>> THEN s
        ELSE IF isFinal
             THEN [sent EXCEPT !.finalTranscript = rolled,
                               !.uiFinals = Receive(@, rolled)]
             ELSE sent

\* a callback that passes the finality of the payload on
onTranscriptWithFinality(s, payload) == emitTranscript(s, payload, payload.isFinal)

\* baseCallbacks.onTranscript is emitTranscript itself: an adapter calls it
\* with the payload as its only argument, so the parameter isFinal takes its
\* default value
onTranscript(s, payload) == emitTranscript(s, payload, FALSE)

\* baseCallbacks.onError
onError(s) == sendStatus(s, "error")

resetTranscriptionState(s) == [s EXCEPT !.finalTranscript = Empty]

-----------------------------------------------------------------------------
(* Provider adapters, as the Session Manager sees them *)

NoOutcome == "none"

NewAdapter(p, st) ==
    [provider |-> p, st |-> st, errored |-> FALSE, stopOutcome |-> NoOutcome,
     events |-> 0,                  \* payloads the adapter has passed to onTranscript
     owner |-> 0]                   \* the start request that created the adapter

\* createDeepgramSession and createRevaiSession wait for no I/O: the session
\* exists before any other handler can run
SyncCreateProviders == {"deepgram", "revai"}

\* stop() of the Deepgram adapter awaits nothing
SyncStopProviders == {"deepgram"}

\* how stop() of each adapter can settle once the remote side or a timer acts
StopOutcomes(p) ==
    CASE p = "deepgram" -> {"resolved", "rejected"}
      [] p = "assembly" -> {"resolved", "rejected"}
      [] p = "gladia" -> {"resolved", "rejected", "timeout"}
      [] p = "revai" -> {"resolved", "rejected", "timeout"}
      [] p = "speechmatics" -> {"resolved", "timeout"}
      [] p = "googleGenai" -> {"resolved", "timeout"}

LiveStates == {"connecting", "live"}

\* a capture is "starting", "running", "failed" (its start() rejected),
\* "stopping" or "stopped"; stopAudioCapture removes its listeners before it
\* calls stop()
Listening == {"starting", "running", "failed"}

-----------------------------------------------------------------------------
(* stopAudioCapture, stopTranscriptionSession *)

SetTask(s, h, t) == [s EXCEPT !.task[h] = t]

\* stopAudioCapture up to its await of capture.stop(); the caller has checked
\* that a capture is installed
stopAudioCapture(s, h, pc) ==
    LET c == s.audioCapture IN
    [s EXCEPT !.audioCapture = 0,
              !.captures[c] = "stopping",
              !.task[h] = [@ EXCEPT !.pc = pc, !.capture = c]]

\* stopAudioCapture after its await of capture.stop()
stopAudioCaptureRest(s, c) ==
    [s EXCEPT !.captures[c] = "stopped",
              !.consecutiveSilentChunks = 0,
              !.silentWarningEmitted = FALSE]

\* the end of a handler that ran stopTranscriptionSession
StopSessionReturn(s, h) ==
    LET done == SetTask(s, h, IdleTask) IN
    CASE s.task[h].kind = "stop" ->
            \* ipcMain.on("stop-transcription")
            LET told == sendStatus(done, "stopped") IN
            IF told.finalTranscript # Empty
            THEN [told EXCEPT !.uiFinals = Receive(@, told.finalTranscript),
                              !.stopFlushes = @ + 1]
            ELSE told
      [] s.task[h].kind = "start" ->
            \* startTranscriptionSession rethrows; ipcMain.on("start-transcription") catches
            [sendStatus(done, "error") EXCEPT !.uiTranscripts =
                Receive(@, [text |-> Empty, isFinal |-> FALSE,
                            provider |-> s.currentTranscriptionType])]
      [] s.task[h].kind = "captureError" -> done

\* stopTranscriptionSession from "currentTranscriptionType = null" on
\* (wavRecorder is null)
StopSessionRest(s, h) ==
    StopSessionReturn([s EXCEPT !.currentTranscriptionType = NoType], h)

\* as StopSessionSettled, without the catch and the finally: a rejected stop()
\* ends the handler and leaves the session in place
StopSessionSettledNoFinally(s, h, a, outcome) ==
    LET s1 == [s EXCEPT !.adapters[a] = [@ EXCEPT !.st = "stopped",
                                                  !.stopOutcome = outcome]]
    IN IF outcome = "rejected"
       THEN SetTask(s1, h, IdleTask)
       ELSE StopSessionRest([s1 EXCEPT !.transcriptionSession = 0], h)

\* the catch and finally around "await transcriptionSession.stop()"
StopSessionSettled(s, h, a, outcome) ==
    LET s1 == [s EXCEPT !.adapters[a] = [@ EXCEPT !.st = "stopped",
                                                  !.stopOutcome = outcome],
                        !.transcriptionSession = 0]
    IN StopSessionRest(s1, h)

\* stopTranscriptionSession from "if (transcriptionSession)" on
StopSessionAdapter(s, h, syncOutcome) ==
    LET a == s.transcriptionSession IN
    IF a = 0 THEN StopSessionRest(s, h)
    ELSE IF s.adapters[a].provider \in SyncStopProviders
         THEN StopSessionSettled(s, h, a, syncOutcome)
         ELSE [s EXCEPT !.adapters[a] =
                            [@ EXCEPT !.st = IF @ = "stopped" THEN @ ELSE "stopping"],
                        !.task[h] = [@ EXCEPT !.pc = "stopAwaitAdapter",
                                              !.adapter = a]]

stopTranscriptionSession(s, h, syncOutcome) ==
    IF s.audioCapture # 0
    THEN stopAudioCapture(s, h, "stopAwaitCapture")
    ELSE StopSessionAdapter(s, h, syncOutcome)

-----------------------------------------------------------------------------
(* startAudioCapture, startTranscriptionSession *)

\* startAudioCapture from "new AudioTee" to its await of capture.start()
InstallCapture(s, h) ==
    LET c == Len(s.captures) + 1 IN
    [s EXCEPT !.captures = Append(@, "starting"),
              !.audioCapture = c,
              !.task[h] = [@ EXCEPT !.pc = "awaitCaptureStart", !.capture = c]]

startAudioCapture(s, h) ==
    IF s.audioCapture # 0
    THEN stopAudioCapture(s, h, "awaitCaptureStop")
    ELSE InstallCapture(s, h)

\* startTranscriptionSession after createElectronTranscriptionSession resolved
StartAfterCreate(s, h, a) ==
    startAudioCapture([s EXCEPT !.transcriptionSession = a], h)

\* the environment variable createElectronTranscriptionSession reads the
\* provider's credential from
CredentialVariable(p) ==
    CASE p = "assembly" -> "ASSEMBLY_API_KEY"
      [] p = "deepgram" -> "DEEPGRAM_API_KEY"
      [] p = "gladia" -> "GLADIA_API_KEY"
      [] p = "revai" -> "REVAI_ACCESS_TOKEN"
      [] p = "googleGenai" -> "GOOGLE_GENAI_API_KEY"
      [] p = "speechmatics" -> "SPEECHMATICS_API_KEY"

\* the variable the factory's "Missing ..." error names
MissingMessage(p) ==
    CASE p = "assembly" -> "ASSEMBLYAI_API_KEY"
      [] p = "deepgram" -> "DEEPGRAM_API_KEY"
      [] p = "gladia" -> "GLADIA_API_KEY"
      [] p = "revai" -> "REVAI_ACCESS_TOKEN"
      [] p = "googleGenai" -> "GOOGLE_GENAI_API_KEY"
      [] p = "speechmatics" -> "SPEECHMATICS_API_KEY"

\* how the creation of the session may fail before any I/O: the credential is
\* missing, or the provider's client cannot be built
StartFailures == {"none", "missing", "client"}

\* the error thrown by createElectronTranscriptionSession
ThrownError(transcriptionType, failure) ==
    IF transcriptionType = UnknownType THEN "unsupported"
    ELSE IF failure = "missing" THEN MissingMessage(transcriptionType)
    ELSE "client"

\* the catch of ipcMain.on("start-transcription")
StartFailed(s, h) ==
    [sendStatus(SetTask(s, h, IdleTask), "error") EXCEPT !.uiTranscripts =
        Receive(@, [text |-> Empty, isFinal |-> FALSE,
                    provider |-> s.currentTranscriptionType])]

\* ipcMain.on("start-transcription"), up to the first await on I/O.
startTranscription(s, h, transcriptionType, failure) ==
    LET s0 == [s EXCEPT !.nRequests = h, !.lastHandler = "start"]
        s1 == sendStatus(s0, "connecting")
        s2 == [resetTranscriptionState(s1) EXCEPT
                  !.currentTranscriptionType = transcriptionType,
                  !.stopFlushes = 0,
                  !.emitted = <<>>,
                  !.lastError = "none",
                  !.task[h] = [IdleTask EXCEPT !.kind = "start"]]
        a == Len(s.adapters) + 1
    IN  IF s.transcriptionSession # 0 THEN s0
        ELSE IF transcriptionType = UnknownType \/ failure # "none"
        THEN StartFailed([s2 EXCEPT !.lastError =
                                        ThrownError(transcriptionType, failure)], h)
        ELSE IF transcriptionType \in SyncCreateProviders
        THEN StartAfterCreate(
                [s2 EXCEPT !.adapters =
                    Append(@, [NewAdapter(transcriptionType, "live") EXCEPT !.owner = h])],
                h, a)
        ELSE [s2 EXCEPT !.adapters =
                    Append(@, [NewAdapter(transcriptionType, "connecting")
                                  EXCEPT !.owner = h]),
                        !.task[h] = [@ EXCEPT !.pc = "awaitCreate", !.adapter = a]]

\* ipcMain.on("stop-transcription"), up to the first await on I/O
stopTranscription(s, h, syncOutcome) ==
    stopTranscriptionSession(
        [s EXCEPT !.nRequests = h, !.lastHandler = "stop",
                  !.task[h] = [IdleTask EXCEPT !.kind = "stop"]],
        h, syncOutcome)

-----------------------------------------------------------------------------
(* Actions of the Session Manager *)

SyncOutcomes == {"resolved", "rejected"}

NextHandler == nRequests + 1

\* the renderer sends "start-transcription"; max bounds the requests of a run
StartRequestWithin(max) ==
    /\ nRequests < max
    /\ \E transcriptionType \in RequestedTypes \cup {UnknownType},
          failure \in StartFailures :
          Commit(startTranscription(State, NextHandler, transcriptionType, failure))

StartRequest == StartRequestWithin(MaxRequests)

\* the renderer sends "stop-transcription"
StopRequestWithin(max) ==
    /\ nRequests < max
    /\ \E o \in SyncOutcomes : Commit(stopTranscription(State, NextHandler, o))

StopRequest == StopRequestWithin(MaxRequests)

\* createElectronTranscriptionSession settles for an async provider
CreateSettled ==
    \E h \in 1..MaxHandlers, ok \in BOOLEAN :
        /\ task[h].pc = "awaitCreate"
        /\ LET a == task[h].adapter IN
           IF ok
           THEN Commit(StartAfterCreate(
                    [State EXCEPT !.adapters[a] = [@ EXCEPT !.st = "live"]], h, a))
           ELSE Commit(StartFailed(
                    [State EXCEPT !.adapters[a] = [@ EXCEPT !.st = "failed"]], h))

\* capture.stop() settles (a rejection is caught and logged)
CaptureStopSettled ==
    \E h \in 1..MaxHandlers, o \in SyncOutcomes :
        /\ task[h].pc \in {"awaitCaptureStop", "stopAwaitCapture"}
        /\ LET c == task[h].capture
               s1 == stopAudioCaptureRest(State, c)
           IN IF task[h].pc = "awaitCaptureStop"
              THEN Commit(InstallCapture(s1, h))
              ELSE Commit(StopSessionAdapter(s1, h, o))

\* capture.start() settles
CaptureStartSettled ==
    \E h \in 1..MaxHandlers, ok \in BOOLEAN, o \in SyncOutcomes :
        /\ task[h].pc = "awaitCaptureStart"
        /\ LET c == task[h].capture IN
           IF ok
           THEN Commit([State EXCEPT
                    !.captures[c] = IF @ = "starting" THEN "running" ELSE @,
                    !.task[h] = IdleTask])
           ELSE Commit(stopTranscriptionSession(
                    [State EXCEPT
                        !.captures[c] = IF @ = "starting" THEN "failed" ELSE @],
                    h, o))

\* the adapter's stop() settles: by the remote side or by its timer
AdapterStopSettled ==
    \E h \in 1..MaxHandlers :
        /\ task[h].pc = "stopAwaitAdapter"
        /\ LET a == task[h].adapter IN
           \E outcome \in StopOutcomes(adapters[a].provider) :
               Commit(StopSessionSettled(State, h, a, outcome))

\* capture.on("error")
CaptureErrorWithin(max) ==
    /\ nRequests < max
    /\ \E c \in 1..Len(captures), o \in SyncOutcomes :
        /\ captures[c] \in Listening
        /\ Commit(stopTranscriptionSession(
              [sendStatus(State, "error") EXCEPT
                  !.nRequests = NextHandler,
                  !.lastHandler = "captureError",
                  !.task[NextHandler] = [IdleTask EXCEPT !.kind = "captureError"]],
              NextHandler, o))

CaptureError == CaptureErrorWithin(MaxRequests)

-----------------------------------------------------------------------------
(* The audio of the capture *)

\* a chunk is its 16-bit samples
Samples == {0, 5, -5}
CapturedChunks == {<<>>} \cup {<<x>> : x \in Samples} \cup {<<x, y>> : x, y \in Samples}

Abs(x) == IF x < 0 THEN -x ELSE x

RECURSIVE PeakFrom(_, _, _)
PeakFrom(buffer, offset, peak) ==
    IF offset > Len(buffer) THEN peak
    ELSE PeakFrom(buffer, offset + 1,
                  IF Abs(buffer[offset]) > peak THEN Abs(buffer[offset]) ELSE peak)

getPcm16Peak(buffer) == IF Len(buffer) < 1 THEN 0 ELSE PeakFrom(buffer, 1, 0)

\* handleSilentAudioDetection that warns on every silent chunk past the threshold
handleSilentAudioDetectionRepeating(s, peak) ==
    IF peak > 0
    THEN LET s1 == [s EXCEPT !.consecutiveSilentChunks = 0,
                             !.silentWarningEmitted = FALSE]
         IN IF s.silentWarningEmitted /\ s.transcriptionSession # 0
            THEN sendStatus(s1, "connected")
            ELSE s1
    ELSE LET s1 == [s EXCEPT !.consecutiveSilentChunks = @ + 1]
         IN IF s1.consecutiveSilentChunks >= SILENT_CHUNK_THRESHOLD
            THEN sendStatus([s1 EXCEPT !.silentWarningEmitted = TRUE], "no-audio")
            ELSE s1

handleSilentAudioDetection(s, peak) ==
    IF peak > 0
    THEN LET s1 == [s EXCEPT !.consecutiveSilentChunks = 0,
                             !.silentWarningEmitted = FALSE]
         IN IF s.silentWarningEmitted /\ s.transcriptionSession # 0
            THEN sendStatus(s1, "connected")
            ELSE s1
    ELSE LET s1 == [s EXCEPT !.consecutiveSilentChunks = @ + 1]
         IN IF ~s1.silentWarningEmitted
               /\ s1.consecutiveSilentChunks >= SILENT_CHUNK_THRESHOLD
            THEN sendStatus([s1 EXCEPT !.silentWarningEmitted = TRUE], "no-audio")
            ELSE s1

\* the "data" listener of the capture; throws: sendAudio of the session throws
onData(s, chunk, throws) ==
    IF s.transcriptionSession = 0 THEN s
    ELSE IF Len(chunk) = 0 THEN s
    ELSE IF throws THEN s
    ELSE handleSilentAudioDetection(s, getPcm16Peak(chunk))

\* capture.on("data"): a capture that was started and not stopped delivers a chunk
CaptureData ==
    /\ nChunks < MaxChunks
    /\ \E c \in 1..Len(captures), chunk \in CapturedChunks, throws \in BOOLEAN :
        /\ captures[c] \in {"starting", "running"}
        /\ Commit(onData([State EXCEPT !.nChunks = @ + 1], chunk, throws))

-----------------------------------------------------------------------------
(* Events of the adapters *)

\* the adapter reports "connected" or "closed": onStatus is sendStatus
AdapterStatus ==
    /\ nEvents < MaxEvents
    /\ \E a \in 1..Len(adapters), status \in {"connected", "closed"} :
        /\ adapters[a].st \in {"connecting", "live", "stopping"}
        /\ Commit([sendStatus(State, status) EXCEPT !.nEvents = @ + 1])

\* a transcript message arrives; every adapter trims the text and drops an
\* empty one before it calls onTranscript({text, isFinal})
AdapterTranscript ==
    /\ nEvents < MaxEvents
    /\ \E a \in 1..Len(adapters), raw \in RawTexts, isFinal \in BOOLEAN :
        /\ adapters[a].st \in {"live", "stopping"}
        /\ LET text == Trim(raw)
               s1 == [State EXCEPT !.nEvents = @ + 1]
               payload == [text |-> text, isFinal |-> isFinal]
           IN IF text = Empty THEN Commit(s1)
              ELSE Commit(onTranscript(
                      [s1 EXCEPT !.emitted = Append(@, payload),
                                 !.adapters[a] = [@ EXCEPT !.events = @ + 1]],
                      payload))

\* the provider reports an error: onError(error), then onStatus("error")
AdapterError ==
    \E a \in 1..Len(adapters) :
        /\ adapters[a].st = "live"
        /\ ~adapters[a].errored
        /\ Commit([sendStatus(onError(State), "error") EXCEPT
                      !.adapters[a] = [@ EXCEPT !.errored = TRUE]])

Next ==
    \/ StartRequest
    \/ StopRequest
    \/ CreateSettled
    \/ CaptureStopSettled
    \/ CaptureStartSettled
    \/ AdapterStopSettled
    \/ CaptureError
    \/ AdapterStatus
    \/ AdapterTranscript
    \/ AdapterError

Spec == Init /\ [][Next]_vars

\* the Session Manager without the provider's transcript, status and error
\* messages, which change neither the session, nor the capture, nor any handler
LifecycleNext ==
    \/ StartRequest
    \/ StopRequest
    \/ CreateSettled
    \/ CaptureStopSettled
    \/ CaptureStartSettled
    \/ AdapterStopSettled
    \/ CaptureError

LifecycleSpec == Init /\ [][LifecycleNext]_vars

\* the same handlers, with one more request in the run
OverlapNext ==
    \/ StartRequestWithin(MaxHandlers)
    \/ StopRequestWithin(MaxHandlers)
    \/ CreateSettled
    \/ CaptureStopSettled
    \/ CaptureStartSettled
    \/ AdapterStopSettled
    \/ CaptureErrorWithin(MaxHandlers)

OverlapSpec == Init /\ [][OverlapNext]_vars

\* the handlers of the lifecycle and the audio of the captures
SilenceNext ==
    \/ StartRequest
    \/ StopRequest
    \/ CreateSettled
    \/ CaptureStopSettled
    \/ CaptureStartSettled
    \/ AdapterStopSettled
    \/ CaptureError
    \/ CaptureData

SilenceSpec == Init /\ [][SilenceNext]_vars

-----------------------------------------------------------------------------
(* One provider adapter: its listeners, its stop() and the remote side *)

\* the flush threshold of the batch adapter, in chunks
minBytesPerFlush == 2

\* what a generateContent response may carry
ResponseTexts == {Empty, Hello, World}

\* every step starts with nothing emitted, nothing called, no timer armed
Begin(a) ==
    [a EXCEPT !.emits = 0, !.called = FALSE, !.armed = FALSE, !.sent = "none",
              !.settled = "none", !.response = Empty, !.said = <<>>,
              !.fired = FALSE]

TerminalStatuses == {"error", "closed", "stopped"}

\* onStatus?.(status), as its receiver counts it
Status(a, status) ==
    [a EXCEPT !.status = status,
              !.emits = @ + 1,
              !.terminals = IF status \in TerminalStatuses /\ @ < 2 THEN @ + 1 ELSE @,
              !.connects = IF status = "connected" /\ @ < 2 THEN @ + 1 ELSE @]
Errored(a) == [a EXCEPT !.errored = TRUE]
Resolve(a) == [a EXCEPT !.stopPromise = IF @ = "pending" THEN "resolved" ELSE @]
Reject(a) == [a EXCEPT !.stopPromise = IF @ = "pending" THEN "rejected" ELSE @]
cleanup(a) == [a EXCEPT !.listening = FALSE]
clearTimeout(a) == [a EXCEPT !.stopTimer = FALSE]
setClosed(a) == [a EXCEPT !.closed = TRUE]
\* stop() has armed its timer and asked the remote side to end the session
AwaitRemote(a) ==
    [a EXCEPT !.stopTimer = TRUE,
              !.armed = TRUE,
              !.called = TRUE,
              !.remote = IF @ \in {"connecting", "open"} THEN "closing" ELSE @]

\* Deepgram
deepgramOnOpen(a) == Status(a, "connected")
deepgramOnError(a) == Status(Errored(a), "error")
deepgramOnClose(a) == cleanup(Status(a, "closed"))
deepgramStop(a, throws) ==
    LET a1 == [cleanup(a) EXCEPT !.called = TRUE,
                                 !.remote = IF @ \in {"connecting", "open"} /\ ~throws
                                            THEN "closing" ELSE @]
    IN IF throws THEN Reject(a1) ELSE Resolve(a1)

\* AssemblyAI: the listeners are never removed and stop() has no timer;
\* transcriber.close(true) has nothing to wait for once the socket is closed
assemblyOnOpen(a) == Status(a, "connected")
assemblyOnError(a) == Status(Errored(a), "error")
assemblyOnClose(a) == Status(a, "closed")
assemblyStop(a) ==
    LET a1 == [a EXCEPT !.called = TRUE]
    IN IF a.remote = "open" THEN [a1 EXCEPT !.remote = "closing"] ELSE Resolve(a1)

\* Gladia
gladiaHandleConnecting(a) == Status(a, "connecting")
gladiaHandleConnected(a) == Status(a, "connected")
gladiaHandleEnding(a) == Status(a, "stopped")
gladiaHandleEnded(a) == cleanup(Status(a, "closed"))
gladiaHandleError(a) == cleanup(Status(Errored(a), "error"))
\* session.off("ended", onEndedOnce); session.off("error", onErrorOnce)
gladiaOff(a) == [a EXCEPT !.stopListeners = {}]
gladiaFinalize(a) == Resolve(cleanup(gladiaOff(clearTimeout(a))))
gladiaTimeout(a) == Resolve(cleanup(gladiaOff(clearTimeout(a))))
gladiaStop(a, throws) ==
    IF throws
    THEN Reject(cleanup(gladiaOff([a EXCEPT !.called = TRUE, !.armed = TRUE])))
    ELSE [AwaitRemote(a) EXCEPT !.stopListeners = {"ended", "error"}]

\* Rev.ai
handleClientConnect(a) == Status(a, "connected")
handleClientClose(a) == cleanup(Status(setClosed(a), "closed"))
handleStreamError(a) == cleanup(Status(setClosed(Errored(a)), "error"))
\* a listener added with once() is removed when its event is emitted
Emitted(a, event) == [a EXCEPT !.stopListeners = @ \ {event}]
\* streamingClient.off(event, listener)
revaiOff(a, event) == [a EXCEPT !.stopListeners = @ \ {event}]
resolveOnce(a) == Resolve(cleanup(revaiOff(setClosed(clearTimeout(a)), "error")))
rejectOnce(a) == Reject(cleanup(revaiOff(clearTimeout(a), "close")))
revaiTimeout(a) == Resolve(cleanup(setClosed(clearTimeout(a))))
revaiStop(a, throws) ==
    IF a.closed THEN Resolve(cleanup(a))
    ELSE LET a1 == [a EXCEPT !.stopListeners = {"close", "error"}]
         IN IF throws THEN rejectOnce([a1 EXCEPT !.called = TRUE, !.armed = TRUE])
            ELSE AwaitRemote(a1)

\* Speechmatics
speechmaticsHandleError(a) == cleanup(setClosed(Status(Errored(a), "error")))
handleSocketOpen(a) == Status(a, "connected")
handleSocketStateChange(a) ==
    IF a.closed THEN a ELSE cleanup(Status(setClosed(a), "closed"))
handleEndOfTranscript(a) == cleanup(setClosed(Status(a, "closed")))
speechmaticsFinalize(a) == Resolve(cleanup(setClosed(clearTimeout(a))))
speechmaticsTimeout(a) == Resolve(cleanup(setClosed(clearTimeout(a))))
speechmaticsStop(a) ==
    IF a.closed THEN Resolve(a) ELSE AwaitRemote(a)

\* Google GenAI, batch adapter
googleHandleError(a) == Status(Errored(a), "error")
ensureConnected(a) ==
    IF a.connected THEN a ELSE Status([a EXCEPT !.connected = TRUE], "connected")

scheduleFlush(a) ==
    IF a.closed \/ a.stopping \/ a.flushTimer \/ a.audioBuffer = 0
    THEN a
    ELSE [a EXCEPT !.flushTimer = TRUE]

\* model.generateContent(request) is called with the whole buffer
generateContent(a) ==
    [a EXCEPT !.audioBuffer = 0,
              !.unsentAtStop = FALSE,
              !.requestInFlight = TRUE,
              !.requests = IF @ < 2 THEN @ + 1 ELSE @]

\* flushBuffer that does not look at requestInFlight
flushBufferUnguarded(a, force, ignoreClosed) ==
    IF (a.closed \/ a.stopping) /\ ~ignoreClosed /\ ~force THEN a
    ELSE IF a.audioBuffer = 0 THEN a
    ELSE IF ~force /\ a.audioBuffer < minBytesPerFlush THEN scheduleFlush(a)
    ELSE generateContent(a)

\* flushBuffer up to "await pendingRequest"
flushBuffer(a, force, ignoreClosed) ==
    IF (a.closed \/ a.stopping) /\ ~ignoreClosed /\ ~force THEN a
    ELSE IF a.requestInFlight
    THEN [a EXCEPT !.flushRequestedWhileBusy =
                       @ \/ force \/ a.audioBuffer >= minBytesPerFlush]
    ELSE IF a.audioBuffer = 0 THEN a
    ELSE IF ~force /\ a.audioBuffer < minBytesPerFlush THEN scheduleFlush(a)
    ELSE generateContent(a)

\* stop() after its awaits
googleStopRest(a) ==
    LET a1 == setClosed(a)
    IN Resolve(IF a1.connected THEN Status(a1, "closed") ELSE a1)

\* the payload flushBuffer passes to onTranscript
FinalPayload(text) == [text |-> text, isFinal |-> TRUE]

\* requestSettled that does not compare the text with lastTranscript
requestSettledRepeating(a, ok, text) ==
    LET a1 == IF ok
              THEN LET c == ensureConnected([a EXCEPT !.handshake = TRUE,
                                                      !.response = text])
                   IN IF text # Empty
                      THEN [c EXCEPT !.lastTranscript = text,
                                     !.transcript = text,
                                     !.said = Append(@, FinalPayload(text))]
                      ELSE c
              ELSE googleHandleError(a)
        a2 == [a1 EXCEPT !.requestInFlight = FALSE,
                         !.settled = IF ok THEN "resolved" ELSE "rejected",
                         !.requests = IF @ > 0 THEN @ - 1 ELSE @]
        a3 == IF ~a2.stopping /\ ~a2.closed
              THEN IF a2.flushRequestedWhileBusy
                      \/ a2.audioBuffer >= minBytesPerFlush
                   THEN flushBuffer([a2 EXCEPT !.flushRequestedWhileBusy = FALSE],
                                    TRUE, FALSE)
                   ELSE scheduleFlush(a2)
              ELSE a2
    IN IF a3.stopPromise = "pending" THEN googleStopRest(a3) ELSE a3

\* flushBuffer from the settlement of generateContent on, followed by the
\* stop() that was waiting for it
requestSettled(a, ok, text) ==
    LET a1 == IF ok
              THEN LET c == ensureConnected([a EXCEPT !.handshake = TRUE,
                                                      !.response = text])
                   IN IF text # Empty /\ text # c.lastTranscript
                      THEN [c EXCEPT !.lastTranscript = text,
                                     !.transcript = text,
                                     !.said = Append(@, FinalPayload(text))]
                      ELSE c
              ELSE googleHandleError(a)
        a2 == [a1 EXCEPT !.requestInFlight = FALSE,
                         !.settled = IF ok THEN "resolved" ELSE "rejected",
                         !.requests = IF @ > 0 THEN @ - 1 ELSE @]
        a3 == IF ~a2.stopping /\ ~a2.closed
              THEN IF a2.flushRequestedWhileBusy
                      \/ a2.audioBuffer >= minBytesPerFlush
                   THEN flushBuffer([a2 EXCEPT !.flushRequestedWhileBusy = FALSE],
                                    TRUE, FALSE)
                   ELSE scheduleFlush(a2)
              ELSE a2
    IN IF a3.stopPromise = "pending" THEN googleStopRest(a3) ELSE a3

googleSendAudio(a) ==
    IF a.closed THEN a
    ELSE LET a1 == [a EXCEPT !.audioBuffer = @ + 1]
         IN IF a1.audioBuffer >= minBytesPerFlush
            THEN flushBuffer(a1, FALSE, FALSE)
            ELSE scheduleFlush(a1)

googleFlushTimer(a) ==
    flushBuffer([a EXCEPT !.flushTimer = FALSE, !.fired = TRUE], FALSE, FALSE)

googleStop(a) ==
    IF a.closed THEN Resolve(a)
    ELSE LET a1 == flushBuffer([a EXCEPT !.stopping = TRUE, !.flushTimer = FALSE],
                               TRUE, TRUE)
             a2 == [a1 EXCEPT !.unsentAtStop = a1.audioBuffer > 0]
         IN IF a2.requestInFlight THEN a2 ELSE googleStopRest(a2)

\* Google GenAI, live websocket adapter
\* a promise keeps the outcome of the first call that settles it
Settle(a, outcome) ==
    [a EXCEPT !.settles = IF @ < 2 THEN @ + 1 ELSE @,
              !.setup = IF @ = "pending" THEN outcome ELSE @]

\* settleSetup that neither tests nor sets setupResolved
settleSetupUnrecorded(a, outcome) ==
    Settle(a, outcome)

settleSetup(a, outcome) ==
    IF a.setupResolved THEN a
    ELSE Settle([a EXCEPT !.setupResolved = TRUE], outcome)

liveHandleError(a) ==
    LET s == IF ~a.setupResolved THEN settleSetup(a, "rejected") ELSE a
        e == Errored(s)
    IN IF e.closed THEN e ELSE Status(e, "error")
\* a message with setupComplete; the factory returns the session when
\* setupPromise resolves
liveSetupComplete(a) ==
    IF a.connected THEN a
    ELSE LET c == [a EXCEPT !.connected = TRUE]
             s == IF ~c.setupResolved THEN settleSetup(c, "resolved") ELSE c
         IN Status([s EXCEPT !.returned = s.setup = "resolved"
                                          /\ s.connectPromise = "resolved"],
                   "connected")
liveOnClose(a) ==
    LET s == IF ~a.setupResolved THEN settleSetup(a, "rejected") ELSE a
    IN IF s.closed THEN s ELSE Status(setClosed(s), "closed")
\* new WebSocket(url) has thrown: connectPromise is rejected and no listener
\* was ever attached
liveNoSocket ==
    [NewSession(LiveKind) EXCEPT !.remote = "closed", !.connectPromise = "rejected"]
\* the "open" listener sends the setup message; throws: ws.send throws
liveSocketOpen(a, throws) ==
    [a EXCEPT !.socketOpen = TRUE,
              !.connectPromise =
                  IF @ # "pending" THEN @
                  ELSE IF throws THEN "rejected" ELSE "resolved"]
\* an "error" event of the socket reaches handleError and the listener that
\* rejects connectPromise
liveSocketError(a) ==
    [liveHandleError(a) EXCEPT !.connectPromise = IF @ = "pending" THEN "rejected" ELSE @]
\* how createLiveWebsocketSession has ended: after a rejected connectPromise
\* it still waits for setupPromise to settle before it throws
liveFactory(a) ==
    CASE a.connectPromise = "pending" -> "pending"
      [] a.connectPromise = "rejected" ->
            IF a.setup = "pending" THEN "pending" ELSE "rejected"
      [] a.connectPromise = "resolved" ->
            IF a.setup = "pending" THEN "pending"
            ELSE IF a.setup = "resolved" THEN "returned" ELSE "rejected"
liveStopRest(a) ==
    IF a.stopPromise = "pending" THEN Resolve(Status(a, "closed")) ELSE a
liveStop(a, throws) ==
    IF a.closed THEN Resolve(a)
    ELSE LET a1 == setClosed(a)
             a2 == IF a.remote = "open" /\ throws THEN liveHandleError(a1) ELSE a1
         IN IF a.remote = "closed" THEN liveStopRest(a2) ELSE AwaitRemote(a2)

\* session.stop(); throws: the SDK call that ends the session throws
stop(a, throws) ==
    LET p == [a EXCEPT !.stopPromise = "pending", !.stops = @ + 1] IN
    CASE a.kind = "deepgram" -> deepgramStop(p, throws)
      [] a.kind = "assembly" -> assemblyStop(p)
      [] a.kind = "gladia" -> gladiaStop(p, throws)
      [] a.kind = "revai" -> revaiStop(p, throws)
      [] a.kind = "speechmatics" -> speechmaticsStop(p)
      [] a.kind = BatchKind -> googleStop(p)
      [] a.kind = LiveKind -> liveStop(p, throws)

\* the connection opens (for the live adapter: the server completes the setup)
remoteOpen(a) ==
    LET heard == a.listening
        r == [a EXCEPT !.remote = "open", !.handshake = TRUE,
                       !.returned = a.kind # LiveKind] IN
    CASE a.kind = "deepgram" -> IF heard THEN deepgramOnOpen(r) ELSE r
      [] a.kind = "assembly" -> assemblyOnOpen(r)
      [] a.kind = "gladia" ->
            IF heard THEN gladiaHandleConnected(gladiaHandleConnecting(r)) ELSE r
      [] a.kind = "revai" -> IF heard THEN handleClientConnect(r) ELSE r
      [] a.kind = "speechmatics" -> IF heard THEN handleSocketOpen(r) ELSE r
      [] a.kind = LiveKind -> liveSetupComplete(r)

\* the Gladia client, configured with wsRetry, connects its socket again
remoteReconnect(a) ==
    IF a.listening THEN gladiaHandleConnected(gladiaHandleConnecting(a)) ELSE a

\* the remote side ends the session it was asked to end
remoteAck(a) ==
    LET heard == a.listening
        r == [a EXCEPT !.remote = "closed"] IN
    CASE a.kind = "deepgram" -> IF heard THEN deepgramOnClose(r) ELSE r
      [] a.kind = "assembly" -> Resolve(assemblyOnClose(r))
      [] a.kind = "gladia" ->
            LET a1 == IF heard THEN gladiaHandleEnded(gladiaHandleEnding(r)) ELSE r
            IN IF a1.stopTimer THEN gladiaFinalize(a1) ELSE a1
      [] a.kind = "revai" ->
            LET a1 == IF heard THEN handleClientClose(r) ELSE r
            IN IF "close" \in a1.stopListeners
               THEN resolveOnce(Emitted(a1, "close")) ELSE a1
      [] a.kind = "speechmatics" ->
            speechmaticsFinalize(IF heard THEN handleEndOfTranscript(r) ELSE r)
      [] a.kind = LiveKind -> liveStopRest(liveOnClose(r))

\* the remote side answers the request to end the session with an error
remoteFail(a) ==
    LET heard == a.listening
        r == [a EXCEPT !.remote = "closed"] IN
    CASE a.kind = "deepgram" -> IF heard THEN deepgramOnError(r) ELSE r
      [] a.kind = "assembly" -> Reject(assemblyOnError(r))
      [] a.kind = "gladia" ->
            LET a1 == IF heard THEN gladiaHandleError(r) ELSE r
            IN IF a1.stopTimer THEN gladiaFinalize(a1) ELSE a1
      [] a.kind = "revai" ->
            LET a1 == IF heard THEN handleStreamError(r) ELSE r
            IN IF "error" \in a1.stopListeners
               THEN rejectOnce(Emitted(a1, "error")) ELSE a1
      [] a.kind = "speechmatics" -> speechmaticsFinalize(r)
      [] a.kind = LiveKind -> liveStopRest(liveOnClose(liveHandleError(r)))

\* the timer of stop() fires
stopTimeout(a) ==
    CASE a.kind = "gladia" -> gladiaTimeout(a)
      [] a.kind = "revai" -> revaiTimeout(a)
      [] a.kind = "speechmatics" -> speechmaticsTimeout(a)
      [] a.kind = LiveKind -> liveStopRest(clearTimeout(a))

\* the remote side closes a session nobody asked it to end
remoteClose(a) ==
    LET heard == a.listening
        r == [a EXCEPT !.remote = "closed"] IN
    CASE a.kind = "deepgram" -> IF heard THEN deepgramOnClose(r) ELSE r
      [] a.kind = "assembly" -> assemblyOnClose(r)
      [] a.kind = "gladia" -> IF heard THEN gladiaHandleEnded(r) ELSE r
      [] a.kind = "revai" -> IF heard THEN handleClientClose(r) ELSE r
      [] a.kind = "speechmatics" -> IF heard THEN handleSocketStateChange(r) ELSE r
      [] a.kind = LiveKind -> liveOnClose(r)

\* the remote side reports an error on a session nobody asked it to end
remoteError(a) ==
    LET heard == a.listening IN
    CASE a.kind = "deepgram" -> IF heard THEN deepgramOnError(a) ELSE a
      [] a.kind = "assembly" -> assemblyOnError(a)
      [] a.kind = "gladia" -> IF heard THEN gladiaHandleError(a) ELSE a
      [] a.kind = "revai" -> IF heard THEN handleStreamError(a) ELSE a
      [] a.kind = "speechmatics" -> IF heard THEN speechmaticsHandleError(a) ELSE a
      [] a.kind = LiveKind -> liveSocketError(a)

\* what a caller passes to sendAudio: nothing, a chunk of no bytes, audio
Chunks == {"null", "empty", "data"}

deepgramSendAudio(a, chunk) ==
    IF chunk \in {"null", "empty"} THEN a ELSE [a EXCEPT !.called = TRUE]

assemblySendAudio(a, chunk) ==
    IF chunk \in {"null", "empty"} THEN a ELSE [a EXCEPT !.called = TRUE]

gladiaSendAudio(a, chunk) ==
    IF chunk \in {"null", "empty"} THEN a ELSE [a EXCEPT !.called = TRUE]

\* the stream is written unless streamingClient.end() has ended it
revaiSendAudio(a, chunk) ==
    IF chunk = "null" \/ a.closed THEN a
    ELSE IF chunk = "empty" THEN a
    ELSE IF a.remote \in {"closing", "closed"} THEN a
    ELSE [a EXCEPT !.called = TRUE]

\* a chunk of no bytes is passed on like any other
speechmaticsSendAudio(a, chunk, throws) ==
    IF chunk = "null" \/ a.closed THEN a
    ELSE LET a1 == [a EXCEPT !.called = TRUE]
         IN IF throws THEN speechmaticsHandleError(a1) ELSE a1

liveSendAudio(a, chunk, throws) ==
    IF a.closed \/ ~a.connected \/ a.remote # "open" THEN a
    ELSE IF chunk \in {"null", "empty"} THEN a
    ELSE LET a1 == [a EXCEPT !.called = TRUE]
         IN IF throws THEN liveHandleError(a1) ELSE a1

sendAudio(a, chunk, throws) ==
    LET a1 == [a EXCEPT !.sent = chunk]
    IN CASE a.kind = "deepgram" -> deepgramSendAudio(a1, chunk)
         [] a.kind = "assembly" -> assemblySendAudio(a1, chunk)
         [] a.kind = "gladia" -> gladiaSendAudio(a1, chunk)
         [] a.kind = "revai" -> revaiSendAudio(a1, chunk)
         [] a.kind = "speechmatics" -> speechmaticsSendAudio(a1, chunk, throws)
         [] a.kind = BatchKind ->
                IF chunk \in {"null", "empty"} THEN a1 ELSE googleSendAudio(a1)
         [] a.kind = LiveKind -> liveSendAudio(a1, chunk, throws)

AdapterInit ==
    /\ ManagerInit
    /\ main = Detached
    /\ recall = Detached
    /\ applied = Detached
    /\ \/ \E kind \in AdapterKinds : ad = NewSession(kind)
       \/ ad = liveNoSocket

\* stop() is called when no earlier call is still pending
Stop ==
    /\ ad.returned
    /\ ad.stopPromise # "pending"
    /\ ad.stops < MaxStops
    /\ \E throws \in BOOLEAN : ad' = stop(Begin(ad), throws)
    /\ UNCHANGED managerVars

SocketOpen ==
    /\ ad.kind = LiveKind
    /\ ad.remote = "connecting"
    /\ ~ad.socketOpen
    /\ ad.connectPromise = "pending"
    /\ \E throws \in BOOLEAN : ad' = liveSocketOpen(Begin(ad), throws)
    /\ UNCHANGED managerVars

\* the connection is established; for the live socket, a message with
\* setupComplete arrives on the open socket
RemoteOpen ==
    /\ ad.kind # BatchKind
    /\ ad.remote = "connecting"
    /\ ad.kind = LiveKind => ad.socketOpen
    /\ ad' = remoteOpen(Begin(ad))
    /\ UNCHANGED managerVars

RemoteReconnect ==
    /\ ad.kind = "gladia"
    /\ ad.remote = "open"
    /\ ad' = remoteReconnect(Begin(ad))
    /\ UNCHANGED managerVars

RemoteAck ==
    /\ ad.remote = "closing"
    /\ ad' = remoteAck(Begin(ad))
    /\ UNCHANGED managerVars

RemoteFail ==
    /\ ad.remote = "closing"
    /\ ad' = remoteFail(Begin(ad))
    /\ UNCHANGED managerVars

StopTimeout ==
    /\ ad.stopTimer
    /\ ad' = stopTimeout(Begin(ad))
    /\ UNCHANGED managerVars

\* a socket that never opened emits "error" before "close"
RemoteClose ==
    /\ ad.kind # BatchKind
    /\ ad.remote \in {"connecting", "open"}
    /\ (ad.kind = LiveKind /\ ad.remote = "connecting") => (ad.socketOpen \/ ad.errored)
    /\ ad' = remoteClose(Begin(ad))
    /\ UNCHANGED managerVars

\* the live socket can also deliver an error, or a message that does not
\* parse, before its setup has completed
RemoteError ==
    /\ ad.kind # BatchKind
    /\ ad.remote = "open" \/ (ad.kind = LiveKind /\ ad.remote = "connecting")
    /\ ad' = remoteError(Begin(ad))
    /\ UNCHANGED managerVars

SendAudio ==
    /\ ad.returned
    /\ ad.audioBuffer < MaxBuffer
    /\ \E chunk \in Chunks, throws \in BOOLEAN :
           ad' = sendAudio(Begin(ad), chunk, throws)
    /\ UNCHANGED managerVars

FlushTimer ==
    /\ ad.flushTimer
    /\ ad' = googleFlushTimer(Begin(ad))
    /\ UNCHANGED managerVars

RequestSettled ==
    /\ ad.requests > 0
    /\ \E ok \in BOOLEAN, text \in ResponseTexts :
           ad' = requestSettled(Begin(ad), ok, text)
    /\ UNCHANGED managerVars

AdapterNext ==
    \/ Stop
    \/ SocketOpen
    \/ RemoteOpen
    \/ RemoteReconnect
    \/ RemoteAck
    \/ RemoteFail
    \/ StopTimeout
    \/ RemoteClose
    \/ RemoteError
    \/ SendAudio
    \/ FlushTimer
    \/ RequestSettled

AdapterSpec == AdapterInit /\ [][AdapterNext]_vars

\* timers set by the adapter fire, whatever the remote side does; nothing
\* obliges the remote side to answer
FairAdapterSpec ==
    AdapterSpec /\ WF_vars(StopTimeout) /\ WF_vars(FlushTimer)

-----------------------------------------------------------------------------
(* The main process of the build whose renderer captures the audio and sends
   it over IPC, and which can leave the capture to the Recall SDK *)

NoMode == "null"
DirectMode == "electron"
RecallMode == "recall"
CaptureModes == {DirectMode, RecallMode}
RECALL_SUPPORTED_PROVIDERS == {"deepgram", "assembly"}
\* the providers its requests choose among: one created without waiting, one
\* created after a connection, one that Recall does not support
IpcTypes == {"deepgram", "assembly", "gladia"}
\* what the renderer sends on "audio-chunk"
Buffers == {"null", "empty", "data"}

\* transcriptionSession: null, the Recall placeholder (adapter 0) or the
\* wrapper of a provider adapter
NoSession == [audioCaptureType |-> NoMode, provider |-> NoType, adapter |-> 0]
NewMain ==
    [kind |-> "main",
     transcriptionSession |-> NoSession,
     currentTranscriptionType |-> NoType,
     currentAudioCaptureType |-> NoMode,
     recallRecordingActive |-> FALSE,
     tasks |-> <<>>,                \* the handlers started, and where they wait
     created |-> 0,                 \* provider adapters created so far
     status |-> "none",             \* the latest "status-update"
     chunks |-> 0,                  \* "audio-chunk" messages handled
     reached |-> 0,                 \* the adapter whose sendAudio the latest step called
     finalTranscript |-> Empty,
     events |-> 0,                  \* events of the Recall SDK handled
     ui |-> 0]                      \* messages the latest step sent to the UI: 0, 1, or 2 for more

IpcBegin(m) == [m EXCEPT !.reached = 0, !.ui = 0]
\* mainWindow?.webContents.send(channel, ...)
ipcSend(m) == [m EXCEPT !.ui = IF @ < 2 THEN @ + 1 ELSE @]
ipcSendStatus(m, status) == ipcSend([m EXCEPT !.status = status])
ipcTask(m, kind, pc, session) ==
    [m EXCEPT !.tasks = Append(@, [kind |-> kind, pc |-> pc, session |-> session])]
ipcStartFailed(m) == ipcSend(ipcSendStatus(m, "error"))

ipcEmitTranscript(m, text, isFinal) ==
    LET trimmed == Trim(text)
        normalized == IF trimmed # Empty
                         /\ m.currentTranscriptionType \in SIMPLIFIED_TRANSCRIPT_PROVIDERS
                      THEN convertToSimpleChinese(trimmed)
                      ELSE trimmed
    IN  IF normalized = Empty THEN m
        ELSE IF isFinal
        THEN ipcSend(ipcSend([m EXCEPT !.finalTranscript =
                                           Trim(@ \o <<SP>> \o normalized)]))
        ELSE ipcSend(m)

\* the handlers given to setRecallRealtimeHandlers
recallOnTranscript(m, text, isFinal) ==
    IF m.currentAudioCaptureType # RecallMode THEN m
    ELSE ipcEmitTranscript(m, text, isFinal)
recallOnStatus(m, status) ==
    IF m.currentAudioCaptureType # RecallMode THEN m
    ELSE ipcSendStatus(m, status)
recallOnError(m) ==
    IF m.currentAudioCaptureType # RecallMode THEN m
    ELSE ipcSendStatus(m, "error")

\* the stop handler sends the rolling transcript when there is one
ipcFlushFinal(m) == IF m.finalTranscript # Empty THEN ipcSend(m) ELSE m

\* the factory has returned an adapter: the session that wraps it is installed
installSession(m, transcriptionType, audioCaptureType) ==
    [m EXCEPT !.created = @ + 1,
              !.transcriptionSession =
                  [audioCaptureType |-> audioCaptureType,
                   provider |-> transcriptionType,
                   adapter |-> m.created + 1]]

startTranscriptionSession(m, transcriptionType, audioCaptureType, throws) ==
    LET m1 == [m EXCEPT !.finalTranscript = Empty,
                        !.currentTranscriptionType = transcriptionType,
                        !.currentAudioCaptureType = audioCaptureType]
        placeholder == [audioCaptureType |-> audioCaptureType,
                        provider |-> transcriptionType, adapter |-> 0]
    IN  IF audioCaptureType = RecallMode
        THEN IF \/ transcriptionType \notin RECALL_SUPPORTED_PROVIDERS
                \/ ~m.recallRecordingActive
             THEN ipcTask(ipcStartFailed(m1), "start", "done", NoSession)
             ELSE ipcTask([ipcSendStatus(m1, "connected") EXCEPT
                               !.transcriptionSession = placeholder],
                          "start", "done", placeholder)
        ELSE IF transcriptionType \in SyncCreateProviders
             THEN IF throws
                  THEN ipcTask(ipcStartFailed(m1), "start", "done", NoSession)
                  ELSE ipcTask(installSession(m1, transcriptionType, audioCaptureType),
                               "start", "done", placeholder)
             ELSE ipcTask(m1, "start", "create", placeholder)

ipcStartTranscription(m, transcriptionType, audioCaptureType, throws) ==
    IF m.transcriptionSession # NoSession
    THEN ipcTask(m, "start", "done", NoSession)
    ELSE startTranscriptionSession(ipcSendStatus(m, "connecting"),
                                   transcriptionType, audioCaptureType, throws)

ipcCreateSettled(m, i, ok) ==
    LET session == m.tasks[i].session
        m1 == [m EXCEPT !.tasks[i].pc = "done"]
    IN  IF ok
        THEN installSession(m1, session.provider, session.audioCaptureType)
        ELSE ipcStartFailed(m1)

ipcClearSession(m) ==
    [m EXCEPT !.transcriptionSession = NoSession,
              !.currentAudioCaptureType = NoMode,
              !.currentTranscriptionType = NoType]

\* stop() of the session settles without waiting: the placeholder's when no
\* recording is active, a wrapper's when its adapter's stop() does not wait
StopsAtOnce(m, session) ==
    IF session.adapter = 0
    THEN ~m.recallRecordingActive
    ELSE session.provider \in SyncStopProviders

ipcStopTranscription(m) ==
    LET session == m.transcriptionSession
    IN  IF session = NoSession
        THEN ipcTask(ipcFlushFinal(ipcSendStatus(m, "stopped")),
                     "stop", "done", NoSession)
        ELSE IF StopsAtOnce(m, session)
             THEN ipcTask(ipcFlushFinal(ipcSendStatus(ipcClearSession(m), "stopped")),
                          "stop", "done", session)
             ELSE ipcTask(m, "stop", "stop", session)

ipcStopSettled(m, i) ==
    LET session == m.tasks[i].session
        m1 == [m EXCEPT !.tasks[i].pc = "done",
                        !.recallRecordingActive = @ /\ session.adapter # 0]
    IN  ipcFlushFinal(ipcSendStatus(ipcClearSession(m1), "stopped"))

\* the "audio-chunk" handler with its guard on the kind of capture removed
acceptsChunkInAnyMode(m, buffer) ==
    /\ m.transcriptionSession # NoSession
    /\ buffer # "null"

acceptsChunk(m, buffer) ==
    /\ m.transcriptionSession # NoSession
    /\ m.currentAudioCaptureType = DirectMode
    /\ buffer # "null"

\* the placeholder's sendAudio does nothing; a wrapper's calls its adapter's
audioChunk(m, buffer) ==
    [m EXCEPT !.chunks = @ + 1,
              !.reached = IF acceptsChunk(m, buffer) /\ buffer = "data"
                          THEN m.transcriptionSession.adapter
                          ELSE 0]

IpcInit ==
    /\ ManagerInit
    /\ ad = Detached /\ main = NewMain /\ recall = Detached /\ applied = Detached

IpcStart ==
    /\ Len(main.tasks) < MaxRequests
    /\ \E transcriptionType \in IpcTypes, audioCaptureType \in CaptureModes, throws \in BOOLEAN :
           main' = ipcStartTranscription(IpcBegin(main), transcriptionType,
                                         audioCaptureType, throws)
    /\ UNCHANGED <<indexVars, ad, recall, applied>>

IpcStop ==
    /\ Len(main.tasks) < MaxRequests
    /\ main' = ipcStopTranscription(IpcBegin(main))
    /\ UNCHANGED <<indexVars, ad, recall, applied>>

IpcCreateSettled ==
    /\ \E i \in 1..Len(main.tasks), ok \in BOOLEAN :
           /\ main.tasks[i].pc = "create"
           /\ main' = ipcCreateSettled(IpcBegin(main), i, ok)
    /\ UNCHANGED <<indexVars, ad, recall, applied>>

IpcStopSettled ==
    /\ \E i \in 1..Len(main.tasks) :
           /\ main.tasks[i].pc = "stop"
           /\ main' = ipcStopSettled(IpcBegin(main), i)
    /\ UNCHANGED <<indexVars, ad, recall, applied>>

AudioChunk ==
    /\ main.chunks < MaxEvents
    /\ \E buffer \in Buffers : main' = audioChunk(IpcBegin(main), buffer)
    /\ UNCHANGED <<indexVars, ad, recall, applied>>

\* startRecallRecording has settled, with a recording or with a failure
RecallStarted ==
    /\ \E ok \in BOOLEAN : main' = [IpcBegin(main) EXCEPT !.recallRecordingActive = ok]
    /\ main' # main
    /\ UNCHANGED <<indexVars, ad, recall, applied>>

\* stopRecallRecording, asked for by the renderer, has settled
RecallStopped ==
    /\ main.recallRecordingActive
    /\ main' = [IpcBegin(main) EXCEPT !.recallRecordingActive = FALSE]
    /\ UNCHANGED <<indexVars, ad, recall, applied>>

\* the Recall SDK delivers a transcript, a status or an error
RecallEvent ==
    /\ main.events < MaxEvents
    /\ LET m == [IpcBegin(main) EXCEPT !.events = @ + 1]
       IN  \/ \E isFinal \in BOOLEAN : main' = recallOnTranscript(m, Hello, isFinal)
           \/ \E status \in {"connected", "closed"} : main' = recallOnStatus(m, status)
           \/ main' = recallOnError(m)
    /\ UNCHANGED <<indexVars, ad, recall, applied>>

IpcNext ==
    \/ IpcStart
    \/ RecallEvent
    \/ IpcStop
    \/ IpcCreateSettled
    \/ IpcStopSettled
    \/ AudioChunk
    \/ RecallStarted
    \/ RecallStopped

IpcSpec == IpcInit /\ [][IpcNext]_vars

-----------------------------------------------------------------------------
(* The module that drives the Recall SDK: one recording state shared by every
   call, each call running up to its next await *)

NewRecall ==
    [kind |-> "recall",
     recallRecordingActive |-> FALSE,
     recallWindowId |-> 0,          \* 0 (null) or the window prepared last
     recallSdkInitialized |-> FALSE,
     windows |-> 0,                 \* windows the SDK has prepared so far
     recording |-> {},              \* windows the SDK is recording
     calls |-> <<>>]                \* the calls made, and where they wait

NewCall(kind, credentials) ==
    [kind |-> kind,
     pc |-> "run",
     credentials |-> credentials,   \* the call has what a token request needs
     window |-> 0,                  \* the window it passed to the SDK
     tokens |-> 0,                  \* token requests it has sent
     prepared |-> FALSE,            \* it has called prepareDesktopAudioRecording
     failed |-> "none",             \* the step of it that threw
     result |-> "pending",          \* "true", "false" or "rejected"
     stoppedOne |-> FALSE]          \* its stopRecording ended a running recording

\* the catch of startRecallRecording that rethrows without touching the state
recallCatchKeepsState(r, i, why) ==
    [r EXCEPT !.calls[i].pc = "done",
              !.calls[i].failed = why,
              !.calls[i].result = "rejected"]

recallCatch(r, i, why) ==
    [r EXCEPT !.recallRecordingActive = FALSE,
              !.recallWindowId = 0,
              !.calls[i].pc = "done",
              !.calls[i].failed = why,
              !.calls[i].result = "rejected"]

\* both ways of asking for a token throw before any request when what they
\* need is missing
requestUploadToken(r, i) ==
    IF ~r.calls[i].credentials THEN recallCatch(r, i, "token")
    ELSE [r EXCEPT !.calls[i].pc = "token", !.calls[i].tokens = @ + 1]

startRecallRecording(r, credentials) ==
    LET i == Len(r.calls) + 1
        r1 == [r EXCEPT !.calls = Append(@, NewCall("start", credentials))]
    IN  IF r1.recallSdkInitialized
        THEN requestUploadToken(r1, i)
        ELSE [r1 EXCEPT !.calls[i].pc = "init"]

ensureRecallSdkInitialized(r, i, ok) ==
    IF ok
    THEN requestUploadToken([r EXCEPT !.recallSdkInitialized = TRUE], i)
    ELSE recallCatch(r, i, "init")

\* the request has failed (HTTP status, no upload_token) or given a token
tokenSettled(r, i, ok) ==
    IF ok
    THEN [r EXCEPT !.calls[i].pc = "prepare", !.calls[i].prepared = TRUE]
    ELSE recallCatch(r, i, "token")

prepareSettled(r, i, ok) ==
    IF ok
    THEN [r EXCEPT !.windows = @ + 1,
                   !.recallWindowId = r.windows + 1,
                   !.calls[i].window = r.windows + 1,
                   !.calls[i].pc = "start"]
    ELSE recallCatch(r, i, "prepare")

startRecordingSettled(r, i, ok) ==
    IF ok
    THEN [r EXCEPT !.recording = @ \cup {r.calls[i].window},
                   !.recallRecordingActive = TRUE,
                   !.calls[i].pc = "done",
                   !.calls[i].result = "true"]
    ELSE recallCatch(r, i, "start")

stopRecallRecording(r) ==
    LET i == Len(r.calls) + 1
        r1 == [r EXCEPT !.calls = Append(@, NewCall("stop", TRUE))]
    IN  IF ~r1.recallRecordingActive \/ r1.recallWindowId = 0
        THEN [r1 EXCEPT !.calls[i].pc = "done", !.calls[i].result = "false"]
        ELSE [r1 EXCEPT !.calls[i].pc = "stop",
                        !.calls[i].window = r1.recallWindowId]

stopRecordingSettled(r, i, ok) ==
    LET w == r.calls[i].window
        r1 == [r EXCEPT !.recallRecordingActive = FALSE,
                        !.recallWindowId = 0,
                        !.calls[i].pc = "done"]
    IN  IF ok
        THEN [r1 EXCEPT !.recording = @ \ {w},
                        !.calls[i].result = "true",
                        !.calls[i].stoppedOne = w \in r.recording]
        ELSE [r1 EXCEPT !.calls[i].failed = "stop",
                        !.calls[i].result = "rejected"]

isRecallRecordingActive == recall.recallRecordingActive

RecallInit ==
    /\ ManagerInit
    /\ ad = Detached /\ main = Detached /\ recall = NewRecall /\ applied = Detached

Waiting(pc) == {i \in 1..Len(recall.calls) : recall.calls[i].pc = pc}

StartRecording ==
    /\ Len(recall.calls) < MaxCalls
    /\ \E credentials \in BOOLEAN : recall' = startRecallRecording(recall, credentials)
    /\ UNCHANGED <<indexVars, ad, main, applied>>

InitSettled ==
    /\ \E i \in Waiting("init"), ok \in BOOLEAN :
           recall' = ensureRecallSdkInitialized(recall, i, ok)
    /\ UNCHANGED <<indexVars, ad, main, applied>>

TokenSettled ==
    /\ \E i \in Waiting("token"), ok \in BOOLEAN : recall' = tokenSettled(recall, i, ok)
    /\ UNCHANGED <<indexVars, ad, main, applied>>

PrepareSettled ==
    /\ \E i \in Waiting("prepare"), ok \in BOOLEAN : recall' = prepareSettled(recall, i, ok)
    /\ UNCHANGED <<indexVars, ad, main, applied>>

StartRecordingSettled ==
    /\ \E i \in Waiting("start"), ok \in BOOLEAN :
           recall' = startRecordingSettled(recall, i, ok)
    /\ UNCHANGED <<indexVars, ad, main, applied>>

StopRecording ==
    /\ Len(recall.calls) < MaxCalls
    /\ recall' = stopRecallRecording(recall)
    /\ UNCHANGED <<indexVars, ad, main, applied>>

StopRecordingSettled ==
    /\ \E i \in Waiting("stop"), ok \in BOOLEAN :
           recall' = stopRecordingSettled(recall, i, ok)
    /\ UNCHANGED <<indexVars, ad, main, applied>>

\* the SDK reports "recording-ended": its listener forwards the status and
\* leaves the recording state as it is
RecordingEnded ==
    /\ \E w \in recall.recording : recall' = [recall EXCEPT !.recording = @ \ {w}]
    /\ UNCHANGED <<indexVars, ad, main, applied>>

RecallNext ==
    \/ StartRecording
    \/ RecordingEnded
    \/ InitSettled
    \/ TokenSettled
    \/ PrepareSettled
    \/ StartRecordingSettled
    \/ StopRecording
    \/ StopRecordingSettled

RecallSpec == RecallInit /\ [][RecallNext]_vars

-----------------------------------------------------------------------------
(* JavaScript values, as far as normalizeRealtimeTranscript tells them apart:
   a type tag with the characters of a string, the literal of another
   primitive, the properties of an object or the elements of an array *)

Undefined == [t |-> "undefined"]
Null == [t |-> "null"]
Bool(b) == [t |-> "boolean", b |-> b]
Num(n) == [t |-> "number", n |-> n]
Str(s) == [t |-> "string", v |-> s]
Obj(f) == [t |-> "object", f |-> f]
Arr(items) == [t |-> "array", items |-> items]

\* typeof value === "object"
TypeofObject(value) == value.t \in {"object", "array", "null"}

\* Boolean(value)
Truthy(value) ==
    CASE value.t = "boolean" -> value.b
      [] value.t = "number" -> value.n # 0
      [] value.t = "string" -> value.v # <<>>
      [] value.t \in {"object", "array"} -> TRUE
      [] OTHER -> FALSE

\* value.name, and value?.name, on a value that is not null or undefined
\* where the code has no "?."
Get(value, name) ==
    IF value.t = "object" /\ name \in DOMAIN value.f THEN value.f[name] ELSE Undefined

\* value?.[0]
First(value) ==
    CASE value.t = "array" /\ value.items # <<>> -> value.items[1]
      [] value.t = "string" /\ value.v # <<>> -> Str(<<value.v[1]>>)
      [] OTHER -> Undefined

\* left ?? right
Nullish(left, right) == IF left.t \in {"undefined", "null"} THEN right ELSE left

\* left || right
OrElse(left, right) == IF Truthy(left) THEN left ELSE right

\* left === right
StrictEq(left, right) == left.t = right.t /\ left = right

\* names the SDK and the providers use, each compared as a whole
RECALL_REALTIME_EVENT == Str(<<"transcript.data">>)
TRANSCRIPT_FINAL == Str(<<"transcript.final">>)
FINAL == Str(<<"final">>)

-----------------------------------------------------------------------------
(* normalizeRealtimeTranscript of src/recallai.js.  A result is the value
   returned (null, or the text, the finality and the raw data), or the
   TypeError the call ends with *)

ReturnsNull == [outcome |-> "null"]
Returns(text, isFinal, raw) ==
    [outcome |-> "transcript", text |-> text, isFinal |-> isFinal, raw |-> raw]
ThrowsTypeError == [outcome |-> "TypeError"]

\* the callback of words.map: the text of one word, or "throws" when trim is
\* not a function of the value found
wordText(word) ==
    IF word.t = "string" THEN [throws |-> FALSE, text |-> word.v]
    ELSE IF ~Truthy(word) \/ ~TypeofObject(word) THEN [throws |-> FALSE, text |-> <<>>]
    ELSE LET found == OrElse(Get(word, "text"),
                        OrElse(Get(word, "word"),
                          OrElse(Get(word, "transcript"),
                            OrElse(Get(word, "display_text"), Str(<<>>)))))
         IN  IF found.t = "string"
             THEN [throws |-> FALSE, text |-> Trim(found.v)]
             ELSE [throws |-> TRUE, text |-> <<>>]

\* parts.join(" ")
RECURSIVE Join(_)
Join(parts) ==
    IF parts = <<>> THEN <<>>
    ELSE IF Len(parts) = 1 THEN parts[1]
    ELSE parts[1] \o <<SP>> \o Join(Tail(parts))

\* the texts of the words that are not empty, in order
RECURSIVE NonEmptyParts(_)
NonEmptyParts(texts) ==
    IF texts = <<>> THEN <<>>
    ELSE IF Len(texts[1]) > 0 THEN <<texts[1]>> \o NonEmptyParts(Tail(texts))
    ELSE NonEmptyParts(Tail(texts))

extractWords(words) ==
    IF words.t # "array" THEN [throws |-> FALSE, text |-> <<>>]
    ELSE LET mapped == [i \in 1..Len(words.items) |-> wordText(words.items[i])]
         IN  IF \E i \in 1..Len(mapped) : mapped[i].throws
             THEN [throws |-> TRUE, text |-> <<>>]
             ELSE [throws |-> FALSE,
                   text |-> Trim(Join(NonEmptyParts(
                                [i \in 1..Len(mapped) |-> mapped[i].text])))]

\* payload.event ?? payload.type ?? payload.event_type ?? payload.data?.event
\* ?? payload.data?.type ?? null
eventTypeOf(payload) ==
    Nullish(Get(payload, "event"),
      Nullish(Get(payload, "type"),
        Nullish(Get(payload, "event_type"),
          Nullish(Get(Get(payload, "data"), "event"),
            Nullish(Get(Get(payload, "data"), "type"), Null)))))

dataOf(payload) ==
    IF Truthy(Get(payload, "data")) /\ TypeofObject(Get(payload, "data"))
    THEN Get(payload, "data") ELSE payload

nestedDataOf(data) ==
    IF Truthy(Get(data, "data")) /\ TypeofObject(Get(data, "data"))
    THEN Get(data, "data") ELSE Undefined

\* the candidates before the text of the words, in the order of the array
textCandidates(data, nestedData) ==
    << Get(Get(data, "transcript"), "text"),
       Get(data, "transcript"),
       Get(data, "text"),
       Get(data, "transcript_text"),
       Get(data, "message"),
       Get(First(Get(data, "alternatives")), "transcript"),
       Get(First(Get(data, "sentences")), "text"),
       Get(nestedData, "text"),
       Get(nestedData, "transcript"),
       Get(nestedData, "message") >>

\* typeof candidate === "string" && candidate.trim().length > 0
isText(candidate) == candidate.t = "string" /\ Len(Trim(candidate.v)) > 0

\* textCandidates.find(...): the first candidate that is a text, else undefined
RECURSIVE find(_)
find(candidates) ==
    IF candidates = <<>> THEN Undefined
    ELSE IF isText(candidates[1]) THEN candidates[1]
    ELSE find(Tail(candidates))

\* a word counted as final when either of its flags says so
wordIsFinalByEitherFlag(word) ==
    Truthy(Get(word, "word_is_final")) \/ StrictEq(Get(word, "is_final"), Bool(TRUE))

\* nestedData.words.every(...), one word
wordIsFinal(word) ==
    IF Get(word, "word_is_final").t = "boolean"
    THEN Get(word, "word_is_final").b
    ELSE StrictEq(Get(word, "is_final"), Bool(TRUE))

wordsAreFinal(words) ==
    /\ words.t = "array"
    /\ Len(words.items) > 0
    /\ \A i \in 1..Len(words.items) : wordIsFinal(words.items[i])

\* the signals without the comparison of data.status
finalFlagsWithoutStatus(data, nestedData) ==
    << Truthy(Get(data, "is_final")),
       Truthy(Get(data, "final")),
       StrictEq(Get(data, "type"), TRANSCRIPT_FINAL),
       StrictEq(Get(data, "transcript_type"), FINAL),
       StrictEq(Get(data, "completed"), Bool(TRUE)),
       Truthy(Get(nestedData, "is_final")),
       Truthy(Get(nestedData, "final")),
       StrictEq(Get(nestedData, "transcript_type"), FINAL),
       StrictEq(Get(nestedData, "status"), FINAL),
       wordsAreFinal(Get(nestedData, "words")) >>

\* the signals of finalFlags, each as Boolean(...) sees it
finalFlags(data, nestedData) ==
    << Truthy(Get(data, "is_final")),
       Truthy(Get(data, "final")),
       StrictEq(Get(data, "type"), TRANSCRIPT_FINAL),
       StrictEq(Get(data, "status"), FINAL),
       StrictEq(Get(data, "transcript_type"), FINAL),
       StrictEq(Get(data, "completed"), Bool(TRUE)),
       Truthy(Get(nestedData, "is_final")),
       Truthy(Get(nestedData, "final")),
       StrictEq(Get(nestedData, "transcript_type"), FINAL),
       StrictEq(Get(nestedData, "status"), FINAL),
       wordsAreFinal(Get(nestedData, "words")) >>

\* finalFlags.some(Boolean)
some(flags) == \E i \in 1..Len(flags) : flags[i]

normalizeRealtimeTranscript(payload) ==
    IF ~Truthy(payload) THEN ReturnsNull
    ELSE IF ~StrictEq(eventTypeOf(payload), RECALL_REALTIME_EVENT) THEN ReturnsNull
    ELSE LET data == dataOf(payload)
             nestedData == nestedDataOf(data)
             wordsText == extractWords(Get(nestedData, "words"))
             text == find(textCandidates(data, nestedData) \o <<Str(wordsText.text)>>)
         IN  IF wordsText.throws THEN ThrowsTypeError
             ELSE IF ~Truthy(text) THEN ReturnsNull
             ELSE Returns(Trim(text.v), some(finalFlags(data, nestedData)), data)

-----------------------------------------------------------------------------
(* The payloads the "realtime-event" listener is given.  A payload carries
   the event type in one of the places the code looks for it, and its data
   has up to two text fields, or one text field with up to two finality
   fields, or one text field with a word list *)

A == <<"a">>
PaddedB == <<SP, "b", SP>>

TextValues == {Str(<<>>), Str(<<SP>>), Str(A), Str(PaddedB), Num(7), Null}

\* one field of the data ("data") or of the data nested in it ("nested")
Field(at, name, value) == [at |-> at, name |-> name, value |-> value]

TextFields ==
    {Field("data", name, value) :
        name \in {"transcript", "text", "transcript_text", "message"},
        value \in TextValues}
    \cup {Field("data", "transcript", Obj([text |-> value])) : value \in TextValues}
    \cup {Field("data", "alternatives", value) :
            value \in {Arr(<<>>), Str(A), Arr(<<Obj([transcript |-> Str(A)])>>),
                       Arr(<<Obj([transcript |-> Num(7)]),
                             Obj([transcript |-> Str(A)])>>)}}
    \cup {Field("data", "sentences", value) :
            value \in {Arr(<<>>), Arr(<<Obj([text |-> Str(PaddedB)])>>),
                       Arr(<<Null, Obj([text |-> Str(A)])>>)}}
    \cup {Field("nested", name, value) :
            name \in {"text", "transcript", "message"}, value \in TextValues}

FinalFields ==
    {Field("data", name, Bool(b)) :
        name \in {"is_final", "final", "completed"}, b \in BOOLEAN}
    \cup {Field("data", "completed", Str(<<"true">>)),
          Field("data", "type", TRANSCRIPT_FINAL),
          Field("data", "status", FINAL),
          Field("data", "status", Str(<<"partial">>)),
          Field("data", "transcript_type", FINAL)}
    \cup {Field("nested", "is_final", Bool(b)) : b \in BOOLEAN}
    \cup {Field("nested", "final", Bool(TRUE)),
          Field("nested", "transcript_type", FINAL),
          Field("nested", "status", FINAL),
          Field("nested", "status", Str(<<"partial">>))}

\* the words of a side-channel payload: strings, holes and word objects
Words ==
    {Str(A), Null,
     Obj([text |-> Str(A), word_is_final |-> Bool(TRUE)]),
     Obj([word |-> Str(PaddedB), word_is_final |-> Bool(FALSE)]),
     Obj([display_text |-> Str(A), is_final |-> Bool(TRUE)]),
     Obj([transcript |-> Str(A), word_is_final |-> Bool(FALSE), is_final |-> Bool(TRUE)]),
     Obj([text |-> Num(7), is_final |-> Bool(TRUE)])}

\* the word lists of up to max words
WordLists(max) == UNION {[1..n -> Words] : n \in 0..max}

WordsValues(max) == {Str(A)} \cup {Arr(list) : list \in WordLists(max)}

SamePlace(f, g) == f.at = g.at /\ f.name = g.name

UpToTwo(fields) ==
    {{}} \cup UNION {{{f, g} : g \in {h \in fields : h = f \/ ~SamePlace(f, h)}} :
                        f \in fields}

UpToOne(fields) == {{}} \cup {{f} : f \in fields}

OneText == {{Field("data", "text", Str(A))}, {Field("nested", "transcript", Str(PaddedB))}}

\* the properties of an object that has the fields of the set at a place
PropertiesAt(fields, at) ==
    [name \in {f.name : f \in {g \in fields : g.at = at}} |->
        (CHOOSE f \in fields : f.at = at /\ f.name = name).value]

\* the data of a payload: its own fields, and the nested data when a nested
\* field or a word list is there
DataProperties(fields, words) ==
    LET nested == PropertiesAt(fields, "nested")
        withWords == IF words = Undefined THEN nested ELSE [words |-> words] @@ nested
    IN  IF DOMAIN withWords = {} THEN PropertiesAt(fields, "data")
        ELSE [data |-> Obj(withWords)] @@ PropertiesAt(fields, "data")

EventPlaces ==
    {"event", "flat", "scalar data", "type", "event_type", "data.event", "data.type",
     "nowhere", "other event", "null event"}

PayloadOf(place, properties) ==
    CASE place = "event" ->
            Obj([event |-> RECALL_REALTIME_EVENT, data |-> Obj(properties)])
      [] place = "flat" ->
            Obj([event |-> RECALL_REALTIME_EVENT] @@ properties)
      [] place = "scalar data" ->
            Obj([event |-> RECALL_REALTIME_EVENT, data |-> Str(A)] @@ properties)
      [] place = "type" ->
            Obj([type |-> RECALL_REALTIME_EVENT] @@ properties)
      [] place = "event_type" ->
            Obj([event_type |-> RECALL_REALTIME_EVENT, data |-> Obj(properties)])
      [] place = "data.event" ->
            Obj([data |-> Obj([event |-> RECALL_REALTIME_EVENT] @@ properties)])
      [] place = "data.type" ->
            Obj([data |-> Obj([type |-> RECALL_REALTIME_EVENT] @@ properties)])
      [] place = "nowhere" ->
            Obj([data |-> Obj(properties)])
      [] place = "other event" ->
            Obj([event |-> Str(<<"other">>), type |-> RECALL_REALTIME_EVENT,
                 data |-> Obj(properties)])
      [] place = "null event" ->
            Obj([event |-> Null, type |-> RECALL_REALTIME_EVENT,
                 data |-> Obj(properties)])

\* payloads that are not objects with properties
PlainPayloads ==
    {Undefined, Null, Bool(FALSE), Bool(TRUE), Num(0), Num(7), Str(<<>>), Str(A),
     Arr(<<>>)}

\* the payloads whose word lists have up to max words
Payloads(max) ==
    PlainPayloads
    \cup {PayloadOf(place, DataProperties(fields, Undefined)) :
            place \in EventPlaces, fields \in UpToOne(TextFields)}
    \cup {PayloadOf(place, DataProperties(fields, Undefined)) :
            place \in {"event", "flat"}, fields \in UpToTwo(TextFields)}
    \cup {PayloadOf(place, DataProperties(text \cup finals, Undefined)) :
            place \in {"event", "flat"}, text \in OneText, finals \in UpToTwo(FinalFields)}
    \cup {PayloadOf("event", DataProperties(fields, words)) :
            fields \in UpToOne(TextFields) \cup UpToOne(FinalFields),
            words \in WordsValues(max)}
    \cup {PayloadOf("flat", DataProperties({}, words)) : words \in WordsValues(max)}

\* one "realtime-event" of the SDK about to be handled
NewEvent(payload) ==
    [fn |-> "normalizeRealtimeTranscript",
     payload |-> payload,
     result |-> [outcome |-> "pending"],
     handled |-> FALSE]              \* realtimeHandlers.onTranscript was given the result

NormalizerInit ==
    /\ ManagerInit
    /\ ad = Detached /\ main = Detached /\ recall = Detached
    /\ applied \in {NewEvent(payload) : payload \in Payloads(MaxWords)}

\* the listener of "realtime-event"
RealtimeEvent ==
    /\ applied.fn = "normalizeRealtimeTranscript"
    /\ applied.result.outcome = "pending"
    /\ LET normalized == normalizeRealtimeTranscript(applied.payload)
       IN  applied' = [applied EXCEPT !.result = normalized,
                                      !.handled = normalized.outcome = "transcript"]
    /\ UNCHANGED <<indexVars, ad, main, recall>>

NormalizerSpec == NormalizerInit /\ [][RealtimeEvent]_vars

-----------------------------------------------------------------------------
(* The sample rate the Speechmatics and the Rev.ai adapter announce to the
   provider: clampSampleRate(Number(sampleRate)).  Rates are whole numbers;
   NaN and the infinities are values of their own *)

MIN_SAMPLE_RATE == 8000
MAX_SAMPLE_RATE == 48000
DEFAULT_SAMPLE_RATE == 16000

NotANumber == [t |-> "NaN"]
Infinite(sign) == [t |-> "Infinity", sign |-> sign]

Digits == <<"0", "1", "2", "3", "4", "5", "6", "7", "8", "9">>

\* the number a string of decimal digits denotes
RECURSIVE Decimal(_)
Decimal(s) ==
    IF s = <<>> THEN 0
    ELSE 10 * Decimal(SubSeq(s, 1, Len(s) - 1))
             + (CHOOSE d \in 0..9 : Digits[d + 1] = s[Len(s)])

\* Number(value), for the values a caller may pass as sampleRate
ToNumber(value) ==
    CASE value.t \in {"number", "NaN", "Infinity"} -> value
      [] value.t = "undefined" -> NotANumber
      [] value.t = "null" -> Num(0)
      [] value.t = "boolean" -> Num(IF value.b THEN 1 ELSE 0)
      [] value.t = "string" ->
            LET s == Trim(value.v)
            IN  IF \A i \in 1..Len(s) : \E d \in 1..10 : Digits[d] = s[i]
                THEN Num(Decimal(s)) ELSE NotANumber
      [] value.t = "object" -> NotANumber

\* Number.isFinite(value)
IsFinite(value) == value.t = "number"

\* clampSampleRate without its upper limit
clampSampleRateUnbounded(value) ==
    LET numeric == IF IsFinite(value) THEN value.n ELSE DEFAULT_SAMPLE_RATE
    IN  IF numeric < MIN_SAMPLE_RATE THEN MIN_SAMPLE_RATE
        ELSE numeric

\* clampSampleRate of src/transcription/speechmatics.js
clampSampleRate(value) ==
    LET numeric == IF IsFinite(value) THEN value.n ELSE DEFAULT_SAMPLE_RATE
    IN  IF numeric < MIN_SAMPLE_RATE THEN MIN_SAMPLE_RATE
        ELSE IF numeric > MAX_SAMPLE_RATE THEN MAX_SAMPLE_RATE
        ELSE numeric

\* clampSampleRate of the Rev.ai adapter in src/transcription/deepgram.js
revaiClampSampleRate(value) ==
    LET numeric == IF IsFinite(value) THEN value.n ELSE DEFAULT_SAMPLE_RATE
    IN  IF numeric < MIN_SAMPLE_RATE THEN MIN_SAMPLE_RATE
        ELSE IF numeric > MAX_SAMPLE_RATE THEN MAX_SAMPLE_RATE
        ELSE numeric

\* the sample rates a caller may ask for
SampleRates ==
    {Num(k * 1000) : k \in -2..MaxKilohertz}
    \cup {Num(n) : n \in {-1, 1, 7999, 8001, 22050, 44100, 47999, 48001}}
    \cup {NotANumber, Infinite(1), Infinite(-1), Undefined, Null, Bool(TRUE),
          Str(<<>>), Str(<<"a">>), Str(<<"4", "4", "1", "0", "0">>),
          Str(<<"9", "6", "0", "0", "0">>), Obj(<<>>)}

ClampingAdapters == {"speechmatics", "revai"}

\* a call of createSpeechmaticsSession or createRevaiSession with an API key
NewCreate(adapter, sampleRate) ==
    [fn |-> "clampSampleRate",
     adapter |-> adapter,
     sampleRate |-> sampleRate,
     outcome |-> "pending",
     normalizedSampleRate |-> 0]     \* the rate the provider is given

SampleRateInit ==
    /\ ManagerInit
    /\ ad = Detached /\ main = Detached /\ recall = Detached
    /\ applied \in {NewCreate(adapter, sampleRate) :
                       adapter \in ClampingAdapters, sampleRate \in SampleRates}

\* createSpeechmaticsSession up to client.start
CreateSpeechmaticsSession ==
    /\ applied.fn = "clampSampleRate"
    /\ applied.adapter = "speechmatics"
    /\ applied.outcome = "pending"
    /\ applied' = [applied EXCEPT
                      !.outcome = "configured",
                      !.normalizedSampleRate = clampSampleRate(ToNumber(applied.sampleRate))]
    /\ UNCHANGED <<indexVars, ad, main, recall>>

\* createRevaiSession up to new AudioConfig
CreateRevaiSession ==
    /\ applied.fn = "clampSampleRate"
    /\ applied.adapter = "revai"
    /\ applied.outcome = "pending"
    /\ applied' = [applied EXCEPT
                      !.outcome = "configured",
                      !.normalizedSampleRate = revaiClampSampleRate(ToNumber(applied.sampleRate))]
    /\ UNCHANGED <<indexVars, ad, main, recall>>

SampleRateNext == CreateSpeechmaticsSession \/ CreateRevaiSession

SampleRateSpec == SampleRateInit /\ [][SampleRateNext]_vars

-----------------------------------------------------------------------------
(* The mode of the Google GenAI adapter: shouldUseLiveApi(getModelId()) in
   createGoogleGenaiSession.  An environment variable is Unset or a string *)

Unset == [t |-> "undefined"]

UpperCase == <<"A", "B", "C", "D", "E", "F", "G", "H", "I", "J", "K", "L", "M",
               "N", "O", "P", "Q", "R", "S", "T", "U", "V", "W", "X", "Y", "Z">>
LowerCase == <<"a", "b", "c", "d", "e", "f", "g", "h", "i", "j", "k", "l", "m",
               "n", "o", "p", "q", "r", "s", "t", "u", "v", "w", "x", "y", "z">>

\* String.prototype.toLowerCase
toLowerCase(s) ==
    [i \in 1..Len(s) |->
        IF \E k \in 1..Len(UpperCase) : UpperCase[k] = s[i]
        THEN LowerCase[CHOOSE k \in 1..Len(UpperCase) : UpperCase[k] = s[i]]
        ELSE s[i]]

\* String.prototype.includes
includes(s, part) ==
    \E i \in 1..(Len(s) - Len(part) + 1) : SubSeq(s, i, i + Len(part) - 1) = part

DEFAULT_MODEL == <<"m", "o", "d", "e", "l", "s", "/", "g", "e", "m", "i", "n", "i", "-", "2", ".", "5", "-", "f", "l", "a", "s", "h">>
LIVE == <<"l", "i", "v", "e">>
NATIVE_AUDIO == <<"n", "a", "t", "i", "v", "e", "-", "a", "u", "d", "i", "o">>
REALTIME == <<"r", "e", "a", "l", "t", "i", "m", "e">>

\* process.env.GOOGLE_GENAI_MODEL?.trim?.() || DEFAULT_MODEL
getModelId(model) ==
    IF model = Unset \/ Trim(model.v) = <<>> THEN DEFAULT_MODEL ELSE Trim(model.v)

\* shouldUseLiveApi that does not look at the values that switch live mode off
shouldUseLiveApiNeverOff(useLive, modelId) ==
    LET flag == IF useLive = Unset THEN <<>> ELSE toLowerCase(Trim(useLive.v))
        normalized == toLowerCase(modelId)
    IN  IF flag \in {<<"1">>, <<"t", "r", "u", "e">>, <<"y", "e", "s">>} THEN TRUE
        ELSE IF Len(normalized) = 0 THEN FALSE
        ELSE \/ includes(normalized, LIVE)
             \/ includes(normalized, NATIVE_AUDIO)
             \/ includes(normalized, REALTIME)

\* shouldUseLiveApi, with the value of GOOGLE_GENAI_USE_LIVE it reads
shouldUseLiveApi(useLive, modelId) ==
    LET flag == IF useLive = Unset THEN <<>> ELSE toLowerCase(Trim(useLive.v))
        normalized == toLowerCase(modelId)
    IN  IF flag \in {<<"1">>, <<"t", "r", "u", "e">>, <<"y", "e", "s">>} THEN TRUE
        ELSE IF flag \in {<<"0">>, <<"f", "a", "l", "s", "e">>, <<"n", "o">>} THEN FALSE
        ELSE IF Len(normalized) = 0 THEN FALSE
        ELSE \/ includes(normalized, LIVE)
             \/ includes(normalized, NATIVE_AUDIO)
             \/ includes(normalized, REALTIME)

\* values of GOOGLE_GENAI_USE_LIVE and of GOOGLE_GENAI_MODEL
UseLiveValues ==
    {Unset} \cup {Str(s) : s \in {<<>>,
                          <<"1">>,
                          <<"t", "r", "u", "e">>,
                          <<"y", "e", "s">>,
                          <<"0">>,
                          <<"f", "a", "l", "s", "e">>,
                          <<"n", "o">>,
                          <<" ", "T", "R", "U", "E", " ">>,
                          <<"Y", "e", "s">>,
                          <<"N", "O">>,
                          <<" ", "0", " ">>,
                          <<"o", "n">>,
                          <<"2">>}}
ModelValues ==
    {Unset} \cup {Str(s) : s \in {<<>>,
                          <<" ", " ">>,
                          <<"f", "l", "a", "s", "h">>,
                          <<"g", "-", "l", "i", "v", "e">>,
                          <<"G", "-", "L", "I", "V", "E">>,
                          <<" ", "g", "-", "l", "i", "v", "e", " ">>,
                          <<"d", "e", "l", "i", "v", "e", "r">>,
                          <<"x", "-", "n", "a", "t", "i", "v", "e", "-", "a", "u", "d", "i", "o">>,
                          <<"n", "a", "t", "i", "v", "e">>,
                          <<"a", "u", "d", "i", "o", "-", "n", "a", "t", "i", "v", "e">>,
                          <<"r", "e", "a", "l", "t", "i", "m", "e", "-", "1">>,
                          <<"R", "e", "a", "l", "T", "i", "m", "e">>,
                          <<"r", "e", "a", "l", "-", "t", "i", "m", "e">>,
                          <<"m", "o", "d", "e", "l", "s", "/", "l", "i", "v", "e">>}}

\* a call of createGoogleGenaiSession with an API key
NewGenaiCreate(useLive, model) ==
    [fn |-> "shouldUseLiveApi",
     useLive |-> useLive,
     model |-> model,
     modelId |-> <<>>,
     mode |-> "pending"]            \* "live" or "batch" once the session kind is chosen

LiveModeInit ==
    /\ ManagerInit
    /\ ad = Detached /\ main = Detached /\ recall = Detached
    /\ applied \in {NewGenaiCreate(useLive, model) :
                       useLive \in UseLiveValues, model \in ModelValues}

\* createGoogleGenaiSession up to the choice between the two kinds of session
CreateGoogleGenaiSession ==
    /\ applied.fn = "shouldUseLiveApi"
    /\ applied.mode = "pending"
    /\ LET modelId == getModelId(applied.model)
       IN  applied' = [applied EXCEPT
                          !.modelId = modelId,
                          !.mode = IF shouldUseLiveApi(applied.useLive, modelId)
                                   THEN "live" ELSE "batch"]
    /\ UNCHANGED <<indexVars, ad, main, recall>>

LiveModeSpec == LiveModeInit /\ [][CreateGoogleGenaiSession]_vars

-----------------------------------------------------------------------------
(* Vocabulary of the properties *)

Handlers == 1..MaxHandlers
AdapterIds == 1..Len(adapters)

\* no handler is waiting for anything
AllIdle == \A h \in Handlers : task[h] = IdleTask

\* a session is connecting: some start is waiting for its adapter
Connecting == \E h \in Handlers : task[h].pc = "awaitCreate"

\* this step handles a new start / stop request
StartStep == nRequests' = nRequests + 1 /\ lastHandler' = "start"
StopStep == nRequests' = nRequests + 1 /\ lastHandler' = "stop"

LiveAdapters == {a \in AdapterIds : adapters[a].st \in LiveStates}
RunningCaptures == {c \in 1..Len(captures) : captures[c] \in {"starting", "running"}}

\* this step passes a payload from an adapter to onTranscript
EmitStep == nEvents' = nEvents + 1 /\ Len(emitted') = Len(emitted) + 1
EmittedPayload == emitted'[Len(emitted')]

-----------------------------------------------------------------------------
(* C1..C10 *)

\* C1: a start request made while a session is connecting or connected is
\* rejected: it creates no adapter, leaves the session's adapter as it is and
\* sends no status
C1_StartWhileActiveRejected ==
    [][(StartStep /\ (Connecting \/ transcriptionSession # 0))
        => /\ adapters' = adapters
           /\ transcriptionSession' = transcriptionSession
           /\ uiStatus' = uiStatus]_vars

\* C2: at most one adapter is created and not yet stopped, and it is the one
\* the active (connecting or connected) session refers to
C2_AtMostOneLiveAdapter ==
    /\ Cardinality(LiveAdapters) <= 1
    /\ \A a \in LiveAdapters :
          \/ transcriptionSession = a
          \/ \E h \in Handlers : task[h].pc = "awaitCreate" /\ task[h].adapter = a

\* C3: every payload an adapter passes to onTranscript reaches the UI as one
\* transcript with the same isFinal, a final one is added to the rolling
\* transcript, and an interim event followed by the final "test" gives two UI
\* transcripts and the rolling transcript "test"
C3_TranscriptForwarded ==
    [][EmitStep =>
        /\ uiTranscripts'.n = uiTranscripts.n + 1
        /\ uiTranscripts'.last.isFinal = EmittedPayload.isFinal
        /\ EmittedPayload.isFinal =>
              finalTranscript' \in {EmittedPayload.text,
                                    Trim(finalTranscript \o <<SP>> \o EmittedPayload.text)}
        /\ (/\ nRequests = 1
            /\ Len(emitted') = 2
            /\ ~emitted'[1].isFinal
            /\ emitted'[2] = [text |-> Test, isFinal |-> TRUE])
              => finalTranscript' = Test /\ uiTranscripts'.n = 2]_vars

\* C4: the final events "hello" then "world" give the rolling transcript
\* "hello world" for an appending provider and "world" for a replacing one; an
\* event that is not final leaves the rolling transcript as it is
C4_AccumulationLaw ==
    [][EmitStep =>
        /\ ~EmittedPayload.isFinal => finalTranscript' = finalTranscript
        /\ (/\ nRequests = 1
            /\ emitted' = <<[text |-> Hello, isFinal |-> TRUE],
                            [text |-> World, isFinal |-> TRUE]>>)
              => finalTranscript' =
                    IF adapters[1].provider \in REPLACING_FINAL_TRANSCRIPT_PROVIDERS
                    THEN World ELSE HelloWorld]_vars

\* C5: a stop request that follows a fully processed stop request changes
\* nothing in the Session Manager and sends no further terminal status
C5_StopTwiceIdempotent ==
    [][(StopStep /\ lastHandler = "stop" /\ AllIdle)
        => /\ transcriptionSession' = transcriptionSession
           /\ currentTranscriptionType' = currentTranscriptionType
           /\ audioCapture' = audioCapture
           /\ finalTranscript' = finalTranscript
           /\ uiStatus' = uiStatus]_vars

\* C6: once a stop request is fully processed, the finals accumulated by the
\* session, if any, were flushed by stop requests exactly once, and otherwise
\* not at all
C6_FlushedOnce ==
    (lastHandler = "stop" /\ AllIdle)
        => stopFlushes = IF \E i \in 1..Len(emitted) : emitted[i].isFinal
                         THEN 1 ELSE 0

\* C7: when a stop request was the latest request and every handler has
\* completed, no session is active and no adapter or capture is still running
C7_StoppedMeansIdle ==
    (lastHandler = "stop" /\ AllIdle)
        => /\ transcriptionSession = 0
           /\ audioCapture = 0
           /\ LiveAdapters = {}
           /\ RunningCaptures = {}

\* C8: an adapter that has reported an error is torn down: once the handlers
\* are idle it is no longer the session, no capture runs, and the manager
\* accepts a start
C8_ErrorTearsDown ==
    \A a \in AdapterIds :
        (adapters[a].errored /\ AllIdle)
            => /\ transcriptionSession # a
               /\ (transcriptionSession = 0 => audioCapture = 0)

\* this step settles a call of stop() on adapter a
StopSettles(a) ==
    \/ adapters[a].st # "stopped" /\ adapters'[a].st = "stopped"
    \/ \E h \in Handlers : /\ task[h].pc = "stopAwaitAdapter"
                           /\ task[h].adapter = a
                           /\ task'[h] # task[h]

\* the kind of the handler that takes this step
SteppingKind ==
    IF nRequests' # nRequests THEN lastHandler'
    ELSE IF \E h \in Handlers : task'[h] # task[h]
         THEN task[CHOOSE h \in Handlers : task'[h] # task[h]].kind
         ELSE "none"

\* C9: when the adapter's stop() rejects or ends by its timeout, the session
\* reference and the provider type are cleared and the handler goes on as
\* after a successful stop (a stop request still reports "stopped"); no
\* session refers to a stopped adapter, so a start request is accepted
C9_TeardownErrorsClearState ==
    [][/\ \A a \in AdapterIds :
            (StopSettles(a) /\ adapters'[a].stopOutcome \in {"rejected", "timeout"})
                => /\ transcriptionSession' = 0
                   /\ currentTranscriptionType' = NoType
                   /\ SteppingKind = "stop" =>
                         /\ uiStatus' = Receive(uiStatus, "stopped")
                         /\ \A h \in Handlers : task'[h].kind # "stop"
                                                    \/ task'[h] = task[h]
       /\ \A a \in 1..Len(adapters') :
            adapters'[a].st = "stopped" => transcriptionSession' # a]_vars

\* a stop request has completed although the adapter's stop() rejected
C9_Witness ==
    /\ AllIdle
    /\ lastHandler = "stop"
    /\ transcriptionSession = 0
    /\ uiStatus.last = "stopped"
    /\ \E a \in AdapterIds : adapters[a].stopOutcome = "rejected"

\* C10: for every provider adapter, a stop() that has been called eventually
\* settles, even when the remote side never acknowledges and never completes
\* a pending request.
C10_StopEventuallySettles ==
    (ad.stopPromise = "pending") ~> (ad.stopPromise # "pending")

\* the session has ended: an earlier stop() has settled, the remote side has
\* closed the connection, or the adapter has marked itself closed
AlreadyClosed == ad.stopPromise \in {"resolved", "rejected"} \/ ad.remote = "closed" \/ ad.closed

StopCall == ad'.stops = ad.stops + 1

\* C11: for every provider adapter, stop() on a session that is already closed
\* is a no-op: it calls the provider's client no further, arms no timer,
\* emits no status, and returns at once.
C11_StopOnClosedIsNoOp ==
    [][(AlreadyClosed /\ StopCall) =>
          /\ ~ad'.called
          /\ ~ad'.armed
          /\ ad'.emits = 0
          /\ ad'.stopPromise = "resolved"]_vars

\* the session is over: stop() has settled and the connection is closed, so
\* no further event can reach the adapter
SessionOver == ad.stopPromise \in {"resolved", "rejected"} /\ ad.remote = "closed"

\* C12: each provider adapter emits a terminal status ("error", "closed" or
\* "stopped") exactly once per session: never twice, and not zero times once
\* the session is over.
C12_TerminalStatusExactlyOnce ==
    /\ ad.terminals <= 1
    /\ SessionOver => ad.terminals = 1

\* C13: each provider adapter emits "connected" at most once per session, and
\* only after its connection or handshake with the provider has succeeded.
C13_ConnectedOnceAfterHandshake ==
    /\ ad.connects <= 1
    /\ ad.connects >= 1 => ad.handshake

MissingMessages == {MissingMessage(p) : p \in TranscriptionTypes}

\* C14: a start request made while the provider's credential is missing fails
\* with an error naming the missing configuration before any connection is
\* attempted: no adapter and no session are created, the handler ends with
\* "error" and retries nothing, and the manager stays startable.
C14_MissingCredentialFailsFast ==
    [][(StartStep /\ transcriptionSession = 0 /\ lastError' \in MissingMessages) =>
          /\ adapters' = adapters
          /\ captures' = captures
          /\ transcriptionSession' = 0
          /\ task'[nRequests'] = IdleTask
          /\ uiStatus'.last = "error"
          /\ lastError' = CredentialVariable(currentTranscriptionType')]_vars

\* C15: every transcript event delivered to the UI has a non-empty trimmed
\* text, on any path including start failure.
C15_TranscriptTextNonEmpty ==
    uiTranscripts.n > 0 =>
        /\ uiTranscripts.last.text # Empty
        /\ Trim(uiTranscripts.last.text) = uiTranscripts.last.text

\* C16: an audio chunk reaches an adapter's sendAudio only while a session is
\* active and the capture is the direct one, and then it reaches that
\* session's adapter; in every other state handling the chunk changes
\* nothing and reaches no adapter
ChunkStep == main.kind = "main" /\ main'.chunks = main.chunks + 1
C16_ChunkOnlyToActiveDirectSession ==
    [][ChunkStep =>
          /\ main' = [IpcBegin(main) EXCEPT !.chunks = @ + 1, !.reached = main'.reached]
          /\ main'.reached # 0 =>
                 /\ main.transcriptionSession # NoSession
                 /\ main.currentAudioCaptureType = DirectMode
                 /\ main.transcriptionSession.audioCaptureType # RecallMode
                 /\ main'.reached = main.transcriptionSession.adapter]_vars
\* the latest of several chunks has been forwarded to the adapter of a direct session
C16_Witness ==
    /\ main.kind = "main"
    /\ main.chunks = MaxEvents
    /\ main.reached # 0
    /\ main.reached = main.transcriptionSession.adapter

\* C17: sendAudio with an empty chunk, or on a session already closed by
\* stop(), by the remote side or by an error, sends nothing to the provider,
\* calls nothing back and changes nothing
SendAudioStep == ad'.sent # "none"
C17_SendAudioNoOpWhenEmptyOrClosed ==
    [][(SendAudioStep /\ (ad'.sent \in {"null", "empty"} \/ AlreadyClosed)) =>
          /\ ~ad'.called
          /\ ad'.emits = 0
          /\ ad' = [Begin(ad) EXCEPT !.sent = ad'.sent]]_vars

\* C18: the batch adapter has at most one generateContent request in flight,
\* and requestInFlight tells whether there is one, over every interleaving
\* of sendAudio calls, flush timer firings, request completions and stop()
C18_AtMostOneRequestInFlight ==
    ad.kind = BatchKind =>
        /\ ad.requests <= 1
        /\ ad.requestInFlight <=> ad.requests = 1
\* a flush was asked for while a request was in flight, with audio waiting
C18_Witness ==
    /\ ad.kind = BatchKind
    /\ ad.requests = 1
    /\ ad.flushRequestedWhileBusy
    /\ ad.audioBuffer >= minBytesPerFlush

\* C19: audio that arrived while a request was in flight is still buffered
\* when the request resolves, and a follow-up request carrying it is issued
\* at that moment
C19_FollowUpCarriesBufferedAudio ==
    [][(ad'.settled = "resolved" /\ ad.audioBuffer > 0) =>
          /\ ad'.requests = 1
          /\ ad'.audioBuffer = 0]_vars

\* C20: in live mode the setup promise is settled at most once: the first of
\* setup-complete, socket error and socket close decides its outcome, and no
\* later event calls resolve or reject again or changes the outcome
C20_SetupSettledAtMostOnce ==
    [][ad.kind = LiveKind =>
          /\ ad.setup # "pending" => ad'.setup = ad.setup
          /\ ad'.settles <= 1
          /\ ad'.settles = 1 <=> ad'.setup # "pending"
          /\ ad'.setupResolved <=> ad'.setup # "pending"]_vars
\* the socket has reported an error and then closed before the setup completed
C20_Witness ==
    /\ ad.kind = LiveKind
    /\ ad.setup = "rejected"
    /\ ad.errored
    /\ ad.remote = "closed"
    /\ ~ad.connected

\* C21: in live mode, once the socket could not be constructed, the setup
\* message could not be sent, or the socket has reported an error or closed
\* before the setup completed, the creation of the session eventually rejects
LiveCreationFailed ==
    /\ ad.kind = LiveKind
    /\ ad.connectPromise = "rejected" \/ ad.setup = "rejected"
C21_LiveCreationEventuallyRejects ==
    LiveCreationFailed ~> (liveFactory(ad) = "rejected")

\* C22: an event of the Recall SDK that arrives while no Recall session is
\* active (never started, start failed, already stopped) is dropped: nothing
\* is sent to the UI and the rolling transcript is unchanged
RecallEventStep == main.kind = "main" /\ main'.events = main.events + 1
RecallSessionActive ==
    /\ main.transcriptionSession # NoSession
    /\ main.transcriptionSession.audioCaptureType = RecallMode
C22_EventWithoutRecallSessionDropped ==
    [][(RecallEventStep /\ ~RecallSessionActive) =>
          /\ main'.ui = 0
          /\ main'.finalTranscript = main.finalTranscript
          /\ main'.status = main.status]_vars

\* C23: when a call of startRecallRecording fails to obtain its upload token
\* (missing credentials, failed request, response without token), the call
\* rejects, it has prepared and started nothing in the SDK, the recording
\* state is inactive with no window id, and it has asked for a token at most once
TokenFailure(i) ==
    /\ recall'.calls[i].failed = "token"
    /\ i > Len(recall.calls) \/ recall.calls[i].failed # "token"
C23_TokenFailureLeavesNothing ==
    [][recall.kind = "recall" =>
          \A i \in 1..Len(recall'.calls) :
              TokenFailure(i) =>
                  /\ recall'.calls[i].result = "rejected"
                  /\ ~recall'.calls[i].prepared
                  /\ recall'.calls[i].window = 0
                  /\ recall'.calls[i].tokens <= 1
                  /\ recall'.windows = recall.windows
                  /\ recall'.recording = recall.recording
                  /\ ~recall'.recallRecordingActive
                  /\ recall'.recallWindowId = 0]_vars
\* a token request has failed while the state said a recording was active
C23_Witness ==
    /\ recall.kind = "recall"
    /\ \E i \in 1..Len(recall.calls) :
           /\ recall.calls[i].failed = "token"
           /\ recall.calls[i].tokens = 1
    /\ \E j \in 1..Len(recall.calls) : recall.calls[j].result = "true"
    /\ ~recall.recallRecordingActive

\* C24: stopRecallRecording called while no recording is active returns false
\* without calling the SDK and without changing the state, and a call returns
\* true only when its stopRecording ended a recording that was running
StopCallStep ==
    /\ recall.kind = "recall"
    /\ Len(recall'.calls) = Len(recall.calls) + 1
    /\ recall'.calls[Len(recall'.calls)].kind = "stop"
C24_StopReturnsWhetherItStopped ==
    [][recall.kind = "recall" =>
          /\ (StopCallStep /\ ~isRecallRecordingActive) =>
                 /\ recall'.calls[Len(recall'.calls)].result = "false"
                 /\ recall'.calls[Len(recall'.calls)].window = 0
                 /\ [recall' EXCEPT !.calls = recall.calls] = recall
          /\ \A i \in 1..Len(recall'.calls) :
                 (recall'.calls[i].kind = "stop" /\ recall'.calls[i].result = "true")
                     => recall'.calls[i].stoppedOne]_vars

\* the listener has handled the payload of a "transcript.data" event
TranscriptEventHandled ==
    /\ applied.fn = "normalizeRealtimeTranscript"
    /\ applied.result.outcome # "pending"
    /\ Truthy(applied.payload)
    /\ StrictEq(eventTypeOf(applied.payload), RECALL_REALTIME_EVENT)

\* the text candidates of a payload in priority order, the text of its words last
CandidatesOf(payload) ==
    textCandidates(dataOf(payload), nestedDataOf(dataOf(payload)))
        \o <<Str(extractWords(Get(nestedDataOf(dataOf(payload)), "words")).text)>>

\* the places of the candidates that are strings with more than white space
TextPlaces(candidates) ==
    {i \in 1..Len(candidates) :
        candidates[i].t = "string" /\ Trim(candidates[i].v) # <<>>}

\* C25: for the payload of a transcript event the normalizer returns null when
\* no text candidate is a non-empty string, and otherwise the trimmed text of
\* the first candidate in priority order that is one
C25_FirstCandidateInPriorityOrder ==
    TranscriptEventHandled =>
        LET candidates == CandidatesOf(applied.payload)
            places == TextPlaces(candidates)
        IN  IF places = {} THEN applied.result.outcome = "null"
            ELSE /\ applied.result.outcome = "transcript"
                 /\ \E i \in places :
                        /\ \A j \in places : i <= j
                        /\ applied.result.text = Trim(candidates[i].v)

\* the listener has passed a transcript on
TranscriptReturned ==
    /\ applied.fn = "normalizeRealtimeTranscript"
    /\ applied.result.outcome = "transcript"

\* the data the transcript was taken from, and the data nested in it
RawData == applied.result.raw
RawNested ==
    IF Get(RawData, "data").t \in {"object", "array"} THEN Get(RawData, "data") ELSE Undefined

\* a finality signal of the data or of the nested data holds
FieldSignal ==
    \/ Truthy(Get(RawData, "is_final"))
    \/ Truthy(Get(RawData, "final"))
    \/ StrictEq(Get(RawData, "type"), TRANSCRIPT_FINAL)
    \/ StrictEq(Get(RawData, "status"), FINAL)
    \/ StrictEq(Get(RawData, "transcript_type"), FINAL)
    \/ StrictEq(Get(RawData, "completed"), Bool(TRUE))
    \/ Truthy(Get(RawNested, "is_final"))
    \/ Truthy(Get(RawNested, "final"))
    \/ StrictEq(Get(RawNested, "transcript_type"), FINAL)
    \/ StrictEq(Get(RawNested, "status"), FINAL)

\* a word token reports that it is final: by word_is_final when that is a
\* boolean, else by is_final
ReportsFinal(word) ==
    \/ StrictEq(Get(word, "word_is_final"), Bool(TRUE))
    \/ /\ Get(word, "word_is_final").t # "boolean"
       /\ StrictEq(Get(word, "is_final"), Bool(TRUE))

\* the word list is not empty and each of its tokens reports that it is final
WordListSignal ==
    LET words == Get(RawNested, "words")
    IN  /\ words.t = "array"
        /\ words.items # <<>>
        /\ \A i \in 1..Len(words.items) : ReportsFinal(words.items[i])

\* C26: a transcript is final exactly when at least one finality signal of its
\* payload holds, whatever the other signals say: is_final false with status
\* "final" is final, and no signal at all is not final
C26_FinalityOrLaw ==
    TranscriptReturned => (applied.result.isFinal <=> (FieldSignal \/ WordListSignal))
\* a transcript whose is_final is false and whose status is "final" came out final
C26_Witness ==
    /\ TranscriptReturned
    /\ StrictEq(Get(RawData, "is_final"), Bool(FALSE))
    /\ StrictEq(Get(RawData, "status"), FINAL)
    /\ applied.result.isFinal

\* C28: when the word list is the only finality signal of a payload, its
\* transcript is final if and only if the list is not empty and every token
\* reports that it is final; one token that does not makes it non-final
C28_WordListFinalOnlyIfEveryWordIs ==
    (TranscriptReturned /\ ~FieldSignal /\ Get(RawNested, "words").t = "array") =>
        LET words == Get(RawNested, "words").items
        IN  /\ applied.result.isFinal <=>
                  (words # <<>> /\ \A i \in 1..Len(words) : ReportsFinal(words[i]))
            /\ (\E i \in 1..Len(words) : ~ReportsFinal(words[i])) => ~applied.result.isFinal
\* a list of two tokens of which only one reports final gave a non-final transcript
C28_Witness ==
    /\ TranscriptReturned
    /\ ~FieldSignal
    /\ Get(RawNested, "words").t = "array"
    /\ Len(Get(RawNested, "words").items) = 2
    /\ ReportsFinal(Get(RawNested, "words").items[1])
    /\ ~ReportsFinal(Get(RawNested, "words").items[2])
    /\ ~applied.result.isFinal

\* C27: the normalizer never raises, whatever the shape of the payload: it
\* returns null, or a transcript whose text is trimmed and not empty
C27_NormalizerNeverRaises ==
    (applied.fn = "normalizeRealtimeTranscript" /\ applied.result.outcome # "pending") =>
        \/ applied.result.outcome = "null"
        \/ /\ applied.result.outcome = "transcript"
           /\ applied.result.text # <<>>
           /\ Trim(applied.result.text) = applied.result.text
           /\ applied.result.isFinal \in BOOLEAN

\* a session of the Speechmatics or the Rev.ai adapter has been configured
SampleRateChosen == applied.fn = "clampSampleRate" /\ applied.outcome # "pending"

\* C29: whatever sample rate is asked for, the Speechmatics and the Rev.ai
\* adapter give the provider a rate in [8000, 48000]: a rate in the range
\* unchanged, a lower one as 8000, a higher one as 48000, one that is not
\* finite as 16000, and the request is not rejected
C29_SampleRateClamped ==
    SampleRateChosen =>
        /\ applied.outcome = "configured"
        /\ applied.normalizedSampleRate \in 8000..48000
        /\ applied.sampleRate.t = "number" =>
              /\ applied.sampleRate.n \in 8000..48000 =>
                     applied.normalizedSampleRate = applied.sampleRate.n
              /\ applied.sampleRate.n < 8000 => applied.normalizedSampleRate = 8000
              /\ applied.sampleRate.n > 48000 => applied.normalizedSampleRate = 48000
        /\ applied.sampleRate.t \in {"NaN", "Infinity", "undefined"} =>
              applied.normalizedSampleRate = 16000
\* the Speechmatics adapter was asked for more than 48000 and announced 48000
C29_Witness ==
    /\ SampleRateChosen
    /\ applied.adapter = "speechmatics"
    /\ applied.sampleRate.t = "number"
    /\ applied.sampleRate.n > 48000
    /\ applied.normalizedSampleRate = 48000

\* the adapter has chosen between the live and the batch session
ModeChosen == applied.fn = "shouldUseLiveApi" /\ applied.mode # "pending"

\* GOOGLE_GENAI_USE_LIVE is one of the values, whatever its case and the
\* white space around it
FlagIsOneOf(values) ==
    applied.useLive # Unset /\ toLowerCase(Trim(applied.useLive.v)) \in values

\* the name of the model contains the part, whatever its case
NameContains(part) == includes(toLowerCase(applied.modelId), part)

\* C30: the Google GenAI adapter runs in live mode exactly when
\* GOOGLE_GENAI_USE_LIVE is 1, true or yes, or is none of 0, false and no
\* (unset, unrecognized) while the model name contains "live", "native-audio"
\* or "realtime"; 0, false or no gives batch mode whatever the model name
C30_LiveModeByFlagThenModelName ==
    ModeChosen =>
        /\ applied.mode = "live" <=>
              \/ FlagIsOneOf({<<"1">>, <<"t", "r", "u", "e">>, <<"y", "e", "s">>})
              \/ /\ ~FlagIsOneOf({<<"0">>, <<"f", "a", "l", "s", "e">>, <<"n", "o">>})
                 /\ NameContains(LIVE) \/ NameContains(NATIVE_AUDIO) \/ NameContains(REALTIME)
        /\ FlagIsOneOf({<<"0">>, <<"f", "a", "l", "s", "e">>, <<"n", "o">>}) => applied.mode = "batch"
\* a model whose name contains "live" ran in batch mode because the flag said no
C30_Witness ==
    /\ ModeChosen
    /\ FlagIsOneOf({<<"n", "o">>})
    /\ NameContains(LIVE)
    /\ applied.mode = "batch"

-----------------------------------------------------------------------------
(* C31..C40 *)

\* this step accepts a start request: it resets the transcript and goes on to
\* create an adapter
AcceptedStartStep == StartStep /\ transcriptionSession = 0

\* the adapter whose payload this step passes to onTranscript
EmittingAdapter == CHOOSE a \in AdapterIds : adapters'[a].events # adapters[a].events

C32_BatchTranscriptsFinalAndNotRepeated ==
    [][ad.kind = BatchKind =>
           \A i \in 1..Len(ad'.said) :
               /\ ad'.said[i].isFinal
               /\ ad'.said[i].text # ad.transcript]_vars
\* a response repeated the text of the transcript emitted before, and the
\* step that handled it emitted nothing
C32_Witness ==
    /\ ad.kind = BatchKind
    /\ ad.settled = "resolved"
    /\ ad.response = Hello
    /\ ad.transcript = Hello
    /\ ad.said = <<>>

\* the adapters whose stop() waits for the remote side or for a timer
RacingKinds == {"speechmatics", "gladia", "revai"}
StopSettled(a) == a.stopPromise \in {"resolved", "rejected"}
StopCalled == ad'.stops # ad.stops

\* C33: in the Speechmatics, Gladia and Rev.ai adapters a settled stop() stays
\* settled, the adapter calls onStatus and onError no more after it, and once
\* stop() has settled the adapter has no listener left on the remote client
C33_StopSettlesOnceAndDetaches ==
    [][ad.kind \in RacingKinds =>
           /\ (StopSettled(ad) /\ ~StopCalled) =>
                  /\ ad'.stopPromise = ad.stopPromise
                  /\ ad'.emits = 0
                  /\ ad'.errored = ad.errored
           /\ (ad.stopTimer /\ StopSettled(ad')) =>
                  ~ad'.listening /\ ad'.stopListeners = {}]_vars

\* C34: when stop() closes the batch adapter, the audio that was buffered
\* when stop() was called has been handed to generateContent
C34_StopSendsBufferedAudio ==
    (ad.kind = BatchKind /\ ad.closed) => ~ad.unsentAtStop

\* C35: when the flush timer of the batch adapter fires with audio buffered
\* and no request in flight, the whole buffer is handed to generateContent,
\* however small it is
C35_FlushTimerSendsSmallBuffer ==
    [][(ad'.fired /\ ad.audioBuffer > 0 /\ ~ad.requestInFlight) =>
           /\ ad'.requestInFlight
           /\ ad'.audioBuffer = 0]_vars

\* the stop() of the adapter that handler h waits for settles in this step
TeardownCompletes(h) == task[h].pc = "stopAwaitAdapter" /\ task'[h] # task[h]

\* C36: a stop request whose adapter teardown completes late leaves the
\* session reference and the provider type alone when they belong to a session
\* that a start request made after that stop began has created or is creating
C36_StopClearsOnlyItsOwnSession ==
    [][\A h \in Handlers :
          (/\ task[h].kind = "stop"
           /\ TeardownCompletes(h)
           /\ \/ /\ transcriptionSession # 0
                 /\ adapters[transcriptionSession].owner > h
              \/ \E g \in Handlers : g > h /\ task[g].pc = "awaitCreate")
          => /\ transcriptionSession' = transcriptionSession
             /\ currentTranscriptionType' = currentTranscriptionType]_vars

\* C37: whenever an audio capture is installed, a transcription session is
\* active
C37_CaptureImpliesSession ==
    audioCapture # 0 => transcriptionSession # 0

\* handler h completes in this step
Completes(h) == task[h] # IdleTask /\ task'[h] = IdleTask

\* handler h is a start request whose capture has failed to start, and it
\* completes in this step, after its teardown
FailedStartCompletes(h) ==
    /\ task[h].kind = "start"
    /\ Completes(h)
    /\ \/ task[h].pc \in {"stopAwaitCapture", "stopAwaitAdapter"}
       \/ task[h].pc = "awaitCaptureStart" /\ uiStatus' # uiStatus

\* handler h is the "error" listener of the capture, called in this step
CaptureErrorBegins(h) == nRequests' = h /\ nRequests = h - 1 /\ lastHandler' = "captureError"

\* the teardown the "error" listener of the capture has started completes
CaptureErrorCompletes(h) ==
    \/ task[h].kind = "captureError" /\ Completes(h)
    \/ CaptureErrorBegins(h) /\ task'[h] = IdleTask

\* C38: when the capture reports an error the UI receives "error", and when
\* its teardown completes the session reference is cleared and no adapter
\* created before the error is left running; when a start request fails to
\* start its capture, at its completion the UI receives "error", the session
\* reference is cleared and the adapter the request created is stopped
C38_CaptureFailureTearsDown ==
    [][\A h \in Handlers :
          /\ CaptureErrorBegins(h) => uiStatus' = Receive(uiStatus, "error")
          /\ CaptureErrorCompletes(h) =>
                 /\ transcriptionSession' = 0
                 /\ \A a \in AdapterIds :
                        adapters[a].owner < h => adapters'[a].st \notin LiveStates
          /\ FailedStartCompletes(h) =>
                 /\ uiStatus' = Receive(uiStatus, "error")
                 /\ transcriptionSession' = 0
                 /\ \A a \in AdapterIds :
                        adapters[a].owner = h => adapters'[a].st = "stopped"]_vars

\* the windows whose recording a call of startRecallRecording has started, and
\* those whose recording a call of stopRecallRecording has stopped
StartedWindows ==
    {recall.calls[i].window : i \in {j \in 1..Len(recall.calls) :
        recall.calls[j].kind = "start" /\ recall.calls[j].result = "true"}}
StoppedWindows ==
    {recall.calls[i].window : i \in {j \in 1..Len(recall.calls) :
        recall.calls[j].kind = "stop" /\ recall.calls[j].result = "true"}}

\* C39: isRecallRecordingActive() is true exactly when some recording that a
\* call has started through the SDK has not been stopped by a call
C39_ActiveIffRecordingNotStopped ==
    recall.kind = "recall" =>
        (isRecallRecordingActive <=> StartedWindows \ StoppedWindows # {})

\* this step is a "data" event of a capture
DataStep == nChunks' = nChunks + 1
NoAudioSent == uiStatus' = Receive(uiStatus, "no-audio")
ConnectedSent == uiStatus' = Receive(uiStatus, "connected")

\* C40: a chunk makes the manager send "no-audio" exactly when it brings the
\* count of consecutive silent chunks from below the threshold to the
\* threshold; the warning is on exactly while the count is at or over the
\* threshold, so nothing is sent again before a chunk with audio or the stop
\* of a capture has reset the count; and the chunk with audio that ends a
\* warning sends "connected", with a session active, and no other chunk does
C40_NoAudioOncePerSilence ==
    [][/\ silentWarningEmitted' <=> consecutiveSilentChunks' >= SILENT_CHUNK_THRESHOLD
       /\ DataStep =>
              /\ NoAudioSent <=>
                     /\ consecutiveSilentChunks < SILENT_CHUNK_THRESHOLD
                     /\ consecutiveSilentChunks' = SILENT_CHUNK_THRESHOLD
              /\ ConnectedSent <=> (silentWarningEmitted /\ ~silentWarningEmitted')
              /\ ConnectedSent => transcriptionSession # 0
              /\ uiStatus' # uiStatus => NoAudioSent \/ ConnectedSent]_vars
\* after a warning a further silent chunk was forwarded and nothing was sent
C40_Witness ==
    /\ silentWarningEmitted
    /\ consecutiveSilentChunks > SILENT_CHUNK_THRESHOLD
    /\ uiStatus.last = "no-audio"

====
